---- MODULE Spec2Model ----
(***************************************************************************)
(* CampusCompass backend (calendar_manager.py, campus_calendar.py,         *)
(* taskbar.py, main.py).                                                   *)
(*                                                                         *)
(* Time is counted in ticks of one minute.  An aware UTC datetime is the   *)
(* integer number of ticks since 00:00 on 1 January of EpochYear; a        *)
(* datetime as it arrives from outside (a stored document, a query bound)  *)
(* is a record [t, aware, off]: wall-clock ticks, whether it carries a     *)
(* tzinfo, and its UTC offset in ticks.                                    *)
(*                                                                         *)
(* Specifications:                                                         *)
(*   SpecExpand  CalendarEvent construction and the loop of                *)
(*               Calendar.expand_recurring_event, one iteration per step   *)
(*   Spec        a Calendar (add_event / remove_event) and its queries     *)
(*   SpecManager CalendarManager: create_event, update_event and           *)
(*               delete_event on the stored documents                      *)
(*   SpecRace    two create_event requests of one user, one database       *)
(*               operation per step                                        *)
(*   SpecMemory  campus_calendar.InMemoryCalendarManager: create_event,    *)
(*               update_event and delete_event on the in-memory store      *)
(*   SpecTaskbar taskbar.py: the import of the module and the calls on     *)
(*               Taskbar                                                   *)
(***************************************************************************)
EXTENDS Integers, Sequences, FiniteSets, TLC

VARIABLES
    ctor,     \* the last CalendarEvent(...) call of load_user_calendar
    walk,     \* the frame of a running expand_recurring_event call
    events,   \* Calendar.events: insertion-ordered dict, as a sequence
    last,     \* the last call and what it returned
    collection, \* CalendarManager.collection: the stored event documents
    calls,    \* the number of manager or Taskbar calls made so far
    reqs,     \* the create_event requests in flight, each with its position
    store,    \* InMemoryCalendarManager.store: the event dicts of every user
    taskbar   \* the taskbar module as imported, and Taskbar.tasks (a dict, as a sequence)

vars == <<ctor, walk, events, last, collection, calls, reqs, store, taskbar>>

----------------------------------------------------------------------------
(* Scale and bounds *)

\* timedelta(days=1), in ticks of one minute
TicksPerDay == 24 * 60

\* timedelta(hours=1)
Hour == TicksPerDay \div 24

EpochYear == 2023
MaxIters == 50

----------------------------------------------------------------------------
(* datetime: the proleptic Gregorian calendar of Python's datetime *)

IsLeap(y) == (y % 4 = 0 /\ y % 100 # 0) \/ y % 400 = 0

DaysInMonth(y, m) ==
    IF m = 2 THEN (IF IsLeap(y) THEN 29 ELSE 28)
    ELSE IF m \in {4, 6, 9, 11} THEN 30 ELSE 31

DaysInYear(y) == IF IsLeap(y) THEN 366 ELSE 365

RECURSIVE DaysBeforeYear(_)
DaysBeforeYear(y) ==
    IF y <= EpochYear THEN 0 ELSE DaysBeforeYear(y - 1) + DaysInYear(y - 1)

RECURSIVE DaysBeforeMonth(_, _)
DaysBeforeMonth(y, m) ==
    IF m <= 1 THEN 0 ELSE DaysBeforeMonth(y, m - 1) + DaysInMonth(y, m - 1)

\* day number (0 = 1 January of EpochYear) of the date y-m-d
ToOrdinal(y, m, d) == DaysBeforeYear(y) + DaysBeforeMonth(y, m) + (d - 1)

RECURSIVE YearOf(_, _)
YearOf(n, y) == IF n < DaysInYear(y) THEN <<y, n>> ELSE YearOf(n - DaysInYear(y), y + 1)

RECURSIVE MonthOf(_, _, _)
MonthOf(n, y, m) ==
    IF n < DaysInMonth(y, m) THEN <<m, n + 1>> ELSE MonthOf(n - DaysInMonth(y, m), y, m + 1)

\* the date [year, month, day] of day number n >= 0
DayIn(year, md) == [year |-> year, month |-> md[1], day |-> md[2]]

DateIn(yr) == DayIn(yr[1], MonthOf(yr[2], yr[1], 1))

FromOrdinal(n) == DateIn(YearOf(n, EpochYear))

\* datetime.date(), as a day number, and the time of day of an aware UTC datetime
DateOf(t) == t \div TicksPerDay
TimeOf(t) == t % TicksPerDay

\* datetime.combine(date, time).replace(tzinfo=utc)
Combine(date, tod) == date * TicksPerDay + tod

\* datetime(y, m, d, h, tzinfo=utc)
At(y, m, d, h) == Combine(ToOrdinal(y, m, d), h * Hour)

\* an external datetime: aware with a UTC offset, or naive
Aware(t, off) == [t |-> t, aware |-> TRUE, off |-> off]
Naive(t) == [t |-> t, aware |-> FALSE, off |-> 0]

\* Calendar._ensure_aware / CalendarManager._parse_datetime on a datetime:
\* a naive value is taken as UTC, an aware one is converted to UTC
EnsureAware(dt) == IF dt.aware THEN dt.t - dt.off ELSE dt.t

ParseDatetime(dt) == IF ~dt.aware THEN dt.t ELSE dt.t - dt.off

----------------------------------------------------------------------------
(* CalendarEvent *)

RecurrenceTypes == {"none", "daily", "weekly", "biweekly", "monthly"}

\* CalendarEvent.__post_init__: the validation of a new event
PostInitStrictOnly(start_time, end_time) ==
    IF start_time > end_time THEN "ValueError" ELSE "ok"

PostInit(start_time, end_time) ==
    IF start_time >= end_time THEN "ValueError" ELSE "ok"

\* the CalendarEvent(...) call of load_user_calendar on a stored document:
\* every datetime goes through _parse_datetime, then __post_init__ runs
NewEvent(doc) ==
    LET st == ParseDatetime(doc.start_time)
        en == ParseDatetime(doc.end_time)
    IN  [outcome    |-> PostInit(st, en),
         start_time |-> st,
         end_time   |-> en,
         event      |-> [id                  |-> doc.id,
                         start_time          |-> st,
                         end_time            |-> en,
                         event_type          |-> doc.event_type,
                         recurrence          |-> doc.recurrence,
                         recurrence_end_date |->
                             IF doc.recurrence_end_date # <<>>
                             THEN <<ParseDatetime(doc.recurrence_end_date[1])>>
                             ELSE <<>>]]

----------------------------------------------------------------------------
(* Calendar.expand_recurring_event *)

\* the range test of a non-recurring event
NoneInRangeOverlap(start, event, end) ==
    start < event.end_time /\ event.start_time < end

NoneInRange(start, event, end) ==
    LET ev_start == EnsureAware(Aware(event.start_time, 0))
    IN  start <= ev_start /\ ev_start < end

\* limit: the rule's end date when set, the range end otherwise
WalkLimit(event, end) ==
    IF event.recurrence_end_date # <<>>
    THEN EnsureAware(Aware(event.recurrence_end_date[1], 0))
    ELSE end

\* the while condition
LoopCondInclusive(current, limit, end) == current <= limit /\ current <= end

LoopCond(current, limit, end) == current < limit /\ current < end

\* instances.append((current, current + duration))
OccurrenceToEventEnd(event, current, duration) == <<current, event.end_time>>

Occurrence(event, current, duration) == <<current, current + duration>>

\* current.replace(year=..., month=...), d the date of current: ValueError
\* when the day does not exist in the target month
ReplaceMonth(current, d, year, month) ==
    IF d.day > DaysInMonth(year, month)
    THEN [raised |-> TRUE, current |-> current]
    ELSE [raised |-> FALSE,
          current |-> Combine(ToOrdinal(year, month, d.day), TimeOf(current))]

\* the monthly branch: December rolls over to January of the next year
NextMonthSameYear(current, d) ==
    IF d.month = 12
    THEN ReplaceMonth(current, d, d.year, 1)
    ELSE ReplaceMonth(current, d, d.year, d.month + 1)

NextMonth(current, d) ==
    IF d.month = 12
    THEN ReplaceMonth(current, d, d.year + 1, 1)
    ELSE ReplaceMonth(current, d, d.year, d.month + 1)

\* the if/elif chain moving current to the next occurrence; a recurrence
\* that matches no branch leaves current as it is
AdvanceShortWeek(recurrence, current) ==
    IF recurrence = "daily" THEN [raised |-> FALSE, current |-> current + TicksPerDay]
    ELSE [raised |-> FALSE, current |-> current + 6 * TicksPerDay]

Advance(recurrence, current) ==
    IF recurrence = "daily"
    THEN [raised |-> FALSE, current |-> current + TicksPerDay]
    ELSE IF recurrence = "weekly"
    THEN [raised |-> FALSE, current |-> current + 7 * TicksPerDay]
    ELSE IF recurrence = "biweekly"
    THEN [raised |-> FALSE, current |-> current + 14 * TicksPerDay]
    ELSE IF recurrence = "monthly"
    THEN NextMonth(current, FromOrdinal(DateOf(current)))
    ELSE [raised |-> FALSE, current |-> current]

\* the loop as a whole.  status: "ok" (value is the list returned),
\* "ValueError" (replace raised), "hang" (current did not move while the
\* condition holds, so the loop never exits)
RECURSIVE ExpandLoop(_, _, _, _, _, _, _)

\* the body of the loop, adv the outcome of moving current
ExpandBody(event, start, end, limit, duration, current, instances, adv) ==
    IF adv.raised THEN [status |-> "ValueError", value |-> <<>>]
    ELSE IF adv.current = current THEN [status |-> "hang", value |-> <<>>]
    ELSE ExpandLoop(event, start, end, limit, duration, adv.current,
                    IF current >= start
                    THEN Append(instances, Occurrence(event, current, duration))
                    ELSE instances)

ExpandLoop(event, start, end, limit, duration, current, instances) ==
    IF ~LoopCond(current, limit, end)
    THEN [status |-> "ok", value |-> instances]
    ELSE ExpandBody(event, start, end, limit, duration, current, instances,
                    Advance(event.recurrence, current))

\* expand_recurring_event(event, start, end), start and end as passed in
ExpandRecurringEvent(event, start_dt, end_dt) ==
    IF event.recurrence = "none"
    THEN [status |-> "ok",
          value  |-> IF NoneInRange(EnsureAware(start_dt), event, EnsureAware(end_dt))
                     THEN << <<event.start_time, event.end_time>> >>
                     ELSE <<>>]
    ELSE ExpandLoop(event, EnsureAware(start_dt), EnsureAware(end_dt),
                    WalkLimit(event, EnsureAware(end_dt)),
                    event.end_time - event.start_time,
                    EnsureAware(Aware(event.start_time, 0)), <<>>)

----------------------------------------------------------------------------
(* Calendar: the event map and the queries over it *)

\* the position of event_id in the insertion-ordered dict, 0 when absent
IndexOf(evs, event_id) ==
    IF \E i \in 1..Len(evs) : evs[i].id = event_id
    THEN CHOOSE i \in 1..Len(evs) : evs[i].id = event_id
    ELSE 0

\* add_event: self.events[event.id] = event
AddEventAppending(evs, event) == Append(evs, event)

AddEventOp(evs, event) ==
    LET i == IndexOf(evs, event.id)
    IN  IF i = 0 THEN Append(evs, event) ELSE [evs EXCEPT ![i] = event]

\* remove_event: the dict afterwards and the value returned
RemoveEventOp(evs, event_id) ==
    LET i == IndexOf(evs, event_id)
    IN  IF i # 0
        THEN [events |-> SubSeq(evs, 1, i - 1) \o SubSeq(evs, i + 1, Len(evs)),
              result |-> TRUE]
        ELSE [events |-> evs, result |-> FALSE]

\* instances.sort(key=lambda x: x[0]): a stable sort, as an insertion sort
RECURSIVE InsertByStart(_, _)
InsertByStart(sorted, x) ==
    IF sorted = <<>> THEN <<x>>
    ELSE IF Head(sorted)[1] <= x[1]
    THEN <<Head(sorted)>> \o InsertByStart(Tail(sorted), x)
    ELSE <<x>> \o sorted

RECURSIVE SortByStart(_)
SortByStart(instances) ==
    IF instances = <<>> THEN <<>>
    ELSE InsertByStart(SortByStart(SubSeq(instances, 1, Len(instances) - 1)),
                       instances[Len(instances)])

\* the instances of one event, each with the event (by its id)
Tagged(times, event_id) ==
    [j \in 1..Len(times) |-> <<times[j][1], times[j][2], event_id>>]

\* instances of one event followed by those of the later events
Joined(mine, rest) ==
    IF rest.status # "ok" THEN rest
    ELSE [status |-> "ok", value |-> mine \o rest.value]

\* the for loop of get_events_for_range from event i on: every instance of
\* every event; an expansion that raises or never returns ends the whole
\* call the same way
RECURSIVE CollectInstances(_, _, _, _)

CollectFrom(evs, i, start, end, times) ==
    IF times.status # "ok" THEN [status |-> times.status, value |-> <<>>]
    ELSE Joined(Tagged(times.value, evs[i].id),
                CollectInstances(evs, i + 1, start, end))

CollectInstances(evs, i, start, end) ==
    IF i > Len(evs) THEN [status |-> "ok", value |-> <<>>]
    ELSE CollectFrom(evs, i, start, end,
                     ExpandRecurringEvent(evs[i], Aware(start, 0), Aware(end, 0)))

\* instances.sort(...); return instances
Sorted(collected) ==
    IF collected.status # "ok" THEN collected
    ELSE [status |-> "ok", value |-> SortByStart(collected.value)]

\* get_events_for_range(start, end)
GetEventsForRangeUnsorted(evs, start_dt, end_dt) ==
    CollectInstances(evs, 1, EnsureAware(start_dt), EnsureAware(end_dt))

GetEventsForRange(evs, start_dt, end_dt) ==
    Sorted(CollectInstances(evs, 1, EnsureAware(start_dt), EnsureAware(end_dt)))

\* the overlap test of check_availability: start1 < end2 and end1 > start2
OverlapsContained(start, end, event_start, event_end) ==
    start <= event_start /\ event_end <= end

Overlaps(start, end, event_start, event_end) ==
    start < event_end /\ end > event_start

\* the for loop of check_availability: False at the first overlapping
\* instance, True when there is none
NoConflict(start, end, found) ==
    IF found.status # "ok" THEN [status |-> found.status, value |-> FALSE]
    ELSE [status |-> "ok",
          value  |-> ~\E i \in 1..Len(found.value) :
                        Overlaps(start, end, found.value[i][1], found.value[i][2])]

\* check_availability(start, end)
CheckAvailability(evs, start_dt, end_dt) ==
    NoConflict(EnsureAware(start_dt), EnsureAware(end_dt),
               GetEventsForRange(evs, Aware(EnsureAware(start_dt), 0),
                                      Aware(EnsureAware(end_dt), 0)))

\* gap_duration >= min_duration, the gap in minutes
GapLongEnoughStrict(gap_start, gap_end, min_duration) ==
    (gap_end - gap_start) > min_duration

GapLongEnough(gap_start, gap_end, min_duration) ==
    (gap_end - gap_start) >= min_duration

\* slot_start after a busy instance
NextSlotStart(slot_start, busy_end) == busy_end

\* the for loop over one day's busy instances, from instance i on
RECURSIVE Sweep(_, _, _, _, _)
Sweep(busy, i, slot_start, min_duration, free) ==
    IF i > Len(busy) THEN [slot_start |-> slot_start, free |-> free]
    ELSE LET busy_start == busy[i][1]
             busy_end   == busy[i][2]
             got == IF busy_start > slot_start
                       /\ GapLongEnough(slot_start, busy_start, min_duration)
                    THEN Append(free, <<slot_start, busy_start>>)
                    ELSE free
         IN  Sweep(busy, i + 1, NextSlotStart(slot_start, busy_end), min_duration, got)

\* the gap after the last busy instance of the day
TrailingGapAlways(slot_start, day_end, min_duration) == << <<slot_start, day_end>> >>

TrailingGap(slot_start, day_end, min_duration) ==
    IF slot_start < day_end /\ GapLongEnough(slot_start, day_end, min_duration)
    THEN << <<slot_start, day_end>> >>
    ELSE <<>>

\* the gaps of a day: those before busy instances, then the trailing one
WithTrailing(swept, day_end, min_duration) ==
    swept.free \o TrailingGap(swept.slot_start, day_end, min_duration)

\* the body of the while loop of find_free_slots after the day's busy
\* instances were fetched: sort them again, sweep
DayGaps(day_start, day_end, min_duration, found) ==
    IF found.status # "ok" THEN found
    ELSE [status |-> "ok",
          value  |-> WithTrailing(Sweep(SortByStart(found.value), 1, day_start,
                                        min_duration, <<>>),
                                  day_end, min_duration)]

\* one iteration of the while loop of find_free_slots: the free slots of
\* the day of current
DaySlots(evs, current, min_duration, work_start, work_end) ==
    DayGaps(Combine(DateOf(current), work_start),
            Combine(DateOf(current), work_end),
            min_duration,
            GetEventsForRange(evs, Aware(Combine(DateOf(current), work_start), 0),
                                   Aware(Combine(DateOf(current), work_end), 0)))

\* while current.date() < end_date.date()
RECURSIVE FreeSlotsLoop(_, _, _, _, _, _, _)

FreeSlotsNext(evs, current, end_date, min_duration, work_start, work_end, free_slots, day) ==
    IF day.status # "ok" THEN day
    ELSE FreeSlotsLoop(evs, current + TicksPerDay, end_date, min_duration,
                       work_start, work_end, free_slots \o day.value)

FreeSlotsLoopInclusive(evs, current, end_date, min_duration, work_start, work_end, free_slots) ==
    IF ~(DateOf(current) <= DateOf(end_date))
    THEN [status |-> "ok", value |-> free_slots]
    ELSE FreeSlotsNext(evs, current, end_date, min_duration, work_start, work_end,
                       free_slots,
                       DaySlots(evs, current, min_duration, work_start, work_end))

FreeSlotsLoop(evs, current, end_date, min_duration, work_start, work_end, free_slots) ==
    IF ~(DateOf(current) < DateOf(end_date))
    THEN [status |-> "ok", value |-> free_slots]
    ELSE FreeSlotsNext(evs, current, end_date, min_duration, work_start, work_end,
                       free_slots,
                       DaySlots(evs, current, min_duration, work_start, work_end))

\* find_free_slots(start_date, end_date, min_duration, work_start, work_end)
FindFreeSlots(evs, start_date, end_date, min_duration, work_start, work_end) ==
    FreeSlotsLoop(evs, EnsureAware(start_date), EnsureAware(end_date),
                  min_duration, work_start, work_end, <<>>)

\* the pair returned for the first free slot
FirstSlotWhole(free_slots, duration_minutes) == <<free_slots[1]>>

FirstSlot(free_slots, duration_minutes) ==
    << <<free_slots[1][1], free_slots[1][1] + duration_minutes>> >>

\* if free_slots: ... return (slot_start, slot_start + duration); return None
FirstOf(found, duration_minutes) ==
    IF found.status # "ok" THEN found
    ELSE [status |-> "ok",
          value  |-> IF found.value # <<>>
                     THEN FirstSlot(found.value, duration_minutes)
                     ELSE <<>>]

\* find_first_available_slot(duration_minutes, start, end, work_start,
\* work_end); the value is <<>> for None, <<(start, end)>> otherwise
FindFirstAvailableSlot(evs, duration_minutes, start_dt, end_dt, work_start, work_end) ==
    FirstOf(FindFreeSlots(evs, Aware(EnsureAware(start_dt), 0),
                          Aware(EnsureAware(end_dt), 0),
                          duration_minutes, work_start, work_end),
            duration_minutes)

\* round(x, n) of Python 3 on the quotient num / den (num >= 0, den > 0):
\* to the nearest, a tie to the even neighbour
RoundHalfEven(num, den) ==
    LET q == num \div den
        r == num % den
    IN  IF 2 * r < den THEN q
        ELSE IF 2 * r > den THEN q + 1
        ELSE IF q % 2 = 0 THEN q ELSE q + 1

\* total_minutes: the sum of the instances' durations, in minutes
RECURSIVE TotalMinutes(_)
TotalMinutes(instances) ==
    IF instances = <<>> THEN 0
    ELSE (Head(instances)[2] - Head(instances)[1]) + TotalMinutes(Tail(instances))

\* type_counts: the number of instances per event_type
TypeCounts(evs, instances) ==
    [t \in { evs[IndexOf(evs, instances[i][3])].event_type : i \in 1..Len(instances) } |->
        Cardinality({ i \in 1..Len(instances) :
                        evs[IndexOf(evs, instances[i][3])].event_type = t })]

\* the dict get_statistics returns for the instances of the range;
\* total_hours is kept in hundredths of an hour (round(..., 2))
Statistics(evs, instances) ==
    IF instances = <<>>
    THEN [total_events |-> 0, total_hours |-> 0, average_duration |-> 0,
          events_by_type |-> <<>>]
    ELSE [total_events |-> Len(instances),
          total_hours  |-> RoundHalfEven(TotalMinutes(instances) * 100, Hour),
          average_duration_minutes |->
              RoundHalfEven(TotalMinutes(instances), Len(instances)),
          events_by_type |-> TypeCounts(evs, instances)]

StatisticsOf(evs, found) ==
    IF found.status # "ok" THEN found
    ELSE [status |-> "ok", value |-> Statistics(evs, found.value)]

\* get_statistics(start, end)
GetStatistics(evs, start_dt, end_dt) ==
    StatisticsOf(evs, GetEventsForRange(evs, Aware(EnsureAware(start_dt), 0),
                                             Aware(EnsureAware(end_dt), 0)))

----------------------------------------------------------------------------
(* SpecExpand: one event is constructed, then expanded over one range *)

\* stored datetimes: naive, UTC, and UTC+2 (01:00 local is 23:00 the day before)
ExpandStartTimes ==
    { Naive(At(EpochYear, 12, 15, 9)),
      Aware(At(EpochYear, 12, 16, 1), 2 * Hour),
      Aware(At(EpochYear + 1, 1, 31, 9), 0) }

ExpandLengths == {0 - Hour, 0, Hour, 3 * Hour}

ExpandRecurrences == RecurrenceTypes \cup {"yearly"}

\* rule end dates, as offsets from the start: none, exactly two days (on an
\* occurrence of a daily rule), two weeks and a tick
ExpandRuleEnds == {0, 2 * TicksPerDay, 14 * TicksPerDay + 1}

Shift(dt, n) == [dt EXCEPT !.t = dt.t + n]

ExpandDocs ==
    { [id                  |-> "e1",
       start_time          |-> s,
       end_time            |-> Shift(s, n),
       event_type          |-> "class",
       recurrence          |-> r,
       recurrence_end_date |-> IF u = 0 THEN <<>> ELSE <<Shift(s, u)>>]
      : s \in ExpandStartTimes, n \in ExpandLengths,
        r \in ExpandRecurrences, u \in ExpandRuleEnds }

ExpandRangeStarts ==
    { Naive(At(EpochYear, 12, 15, 0)),
      Aware(At(EpochYear, 12, 15, 12), 2 * Hour),
      Aware(At(EpochYear, 12, 16, 9), 0) }

ExpandRangeEnds ==
    { Naive(At(EpochYear, 12, 18, 0)),
      Aware(At(EpochYear, 12, 17, 11), 2 * Hour),
      Aware(At(EpochYear + 1, 2, 2, 0), 0) }

InitExpand ==
    /\ ctor = [outcome |-> "none"]
    /\ walk = [pc |-> "idle"]
    /\ events = <<>>
    /\ last = [op |-> "none"]
    /\ collection = <<>>
    /\ calls = 0
    /\ reqs = <<>>
    /\ store = <<>>
    /\ taskbar = [module |-> "unloaded", tasks |-> <<>>]

\* CalendarEvent(...) on a document
Construct(doc) ==
    /\ ctor.outcome = "none"
    /\ ctor' = NewEvent(doc)
    /\ UNCHANGED <<walk, events, last, collection, calls, reqs, store, taskbar>>

\* expand_recurring_event up to the loop: the inputs are normalised, a
\* non-recurring event returns at once, a recurring one enters the loop
ExpandBegin(start_dt, end_dt) ==
    /\ ctor.outcome = "ok"
    /\ walk.pc = "idle"
    /\ LET event == ctor.event
           start == EnsureAware(start_dt)
           end   == EnsureAware(end_dt)
       IN  walk' =
             IF event.recurrence = "none"
             THEN [pc |-> "done", event |-> event, start |-> start, end |-> end,
                   current |-> event.start_time, limit |-> end,
                   duration |-> event.end_time - event.start_time,
                   instances |-> IF NoneInRange(start, event, end)
                                 THEN << <<event.start_time, event.end_time>> >>
                                 ELSE <<>>,
                   iters |-> 0]
             ELSE [pc |-> "loop", event |-> event, start |-> start, end |-> end,
                   current |-> EnsureAware(Aware(event.start_time, 0)),
                   limit |-> WalkLimit(event, end),
                   duration |-> event.end_time - event.start_time,
                   instances |-> <<>>,
                   iters |-> 0]
    /\ UNCHANGED <<ctor, events, last, collection, calls, reqs, store, taskbar>>

\* one iteration of the while loop
ExpandIter ==
    /\ walk.pc = "loop"
    /\ walk.iters < MaxIters
    /\ LoopCond(walk.current, walk.limit, walk.end)
    /\ LET got == IF walk.current >= walk.start
                  THEN Append(walk.instances,
                              Occurrence(walk.event, walk.current, walk.duration))
                  ELSE walk.instances
           adv == Advance(walk.event.recurrence, walk.current)
       IN  walk' = [walk EXCEPT !.pc = IF adv.raised THEN "raised" ELSE "loop",
                                !.current = adv.current,
                                !.instances = got,
                                !.iters = walk.iters + 1]
    /\ UNCHANGED <<ctor, events, last, collection, calls, reqs, store, taskbar>>

\* the loop condition fails: return instances
ExpandReturn ==
    /\ walk.pc = "loop"
    /\ ~LoopCond(walk.current, walk.limit, walk.end)
    /\ walk' = [walk EXCEPT !.pc = "done"]
    /\ UNCHANGED <<ctor, events, last, collection, calls, reqs, store, taskbar>>

NextExpand ==
    \/ \E doc \in ExpandDocs : Construct(doc)
    \/ \E s \in ExpandRangeStarts, e \in ExpandRangeEnds : ExpandBegin(s, e)
    \/ ExpandIter
    \/ ExpandReturn

SpecExpand == InitExpand /\ [][NextExpand]_vars

----------------------------------------------------------------------------
(* Spec: a Calendar is filled from stored documents and queried *)

EventIds == {"e1", "e2"}

\* 07:00 (before the default work hours), 09:00, 10:00 (12:00 at UTC+2) and
\* 21:00 on 15 December
CalStartTimes ==
    { Naive(At(EpochYear, 12, 15, 7)),
      Aware(At(EpochYear, 12, 15, 9), 0),
      Aware(At(EpochYear, 12, 15, 12), 2 * Hour),
      Aware(At(EpochYear, 12, 15, 21), 0) }

CalLengths == {Hour, 3 * Hour}

CalDoc(id, s, n, r, u) ==
    [id                  |-> id,
     start_time          |-> s,
     end_time            |-> Shift(s, n),
     event_type          |-> IF id = "e1" THEN "class" ELSE "exam",
     recurrence          |-> r,
     recurrence_end_date |-> IF u = 0 THEN <<>> ELSE <<Shift(s, u)>>]

\* stored documents: non-recurring, daily without and with an end date, a
\* recurrence outside RecurrenceType, and one whose times are not in order
CalDocs ==
    { CalDoc(id, s, n, r, 0) :
        id \in EventIds, s \in CalStartTimes, n \in CalLengths,
        r \in {"none", "daily", "yearly"} }
    \cup { CalDoc(id, s, n, "daily", TicksPerDay) :
             id \in EventIds, s \in CalStartTimes, n \in CalLengths }
    \cup { CalDoc("e1", Naive(At(EpochYear, 12, 15, 9)), 0, "none", 0) }

\* query ranges (start, end)
CalRanges ==
    { <<Naive(At(EpochYear, 12, 15, 0)), Naive(At(EpochYear, 12, 17, 0))>>,
      <<Aware(At(EpochYear, 12, 15, 9), 0), Aware(At(EpochYear, 12, 15, 10), 0)>>,
      <<Aware(At(EpochYear, 12, 15, 12), 2 * Hour), Aware(At(EpochYear, 12, 15, 12), 0)>>,
      <<Aware(At(EpochYear, 12, 16, 8), 0), Aware(At(EpochYear, 12, 16, 22), 0)>> }

\* search ranges of find_free_slots: one whole day; from 13:00 UTC+2 on the
\* 15th into the 17th
SlotRanges ==
    { <<Naive(At(EpochYear, 12, 15, 0)), Naive(At(EpochYear, 12, 16, 0))>>,
      <<Aware(At(EpochYear, 12, 15, 13), 2 * Hour), Aware(At(EpochYear, 12, 17, 1), 0)>> }

MinDurations == {30, 60, 90}

\* (work_start, work_end): the defaults time(8, 0), time(22, 0), and 10 to 12
WorkHours == { <<8 * Hour, 22 * Hour>>, <<10 * Hour, 12 * Hour>> }

Init ==
    /\ ctor = [outcome |-> "none"]
    /\ walk = [pc |-> "idle"]
    /\ events = <<>>
    /\ last = [op |-> "none"]
    /\ collection = <<>>
    /\ calls = 0
    /\ reqs = <<>>
    /\ store = <<>>
    /\ taskbar = [module |-> "unloaded", tasks |-> <<>>]

\* the Calendar of one request is filled, queried once and dropped:
\* load_user_calendar builds a fresh Calendar for every query
Filling == last.op \in {"none", "add_event", "remove_event"}

\* calendar = Calendar(user_id): the next request's Calendar
NewCalendar ==
    /\ ~Filling
    /\ events' = <<>>
    /\ last' = [op |-> "none"]
    /\ UNCHANGED <<ctor, walk, collection, calls, reqs, store, taskbar>>

\* one pass of the loop of load_user_calendar: the event is constructed and
\* added; a document that fails construction is skipped
LoadEvent(doc) ==
    LET new == NewEvent(doc)
    IN  /\ Filling
        /\ events' = IF new.outcome = "ok" THEN AddEventOp(events, new.event) ELSE events
        /\ last' = [op |-> "add_event", outcome |-> new.outcome]
        /\ UNCHANGED <<ctor, walk, collection, calls, reqs, store, taskbar>>

RemoveEvent(event_id) ==
    LET r == RemoveEventOp(events, event_id)
    IN  /\ Filling
        /\ events' = r.events
        /\ last' = [op |-> "remove_event", event_id |-> event_id, result |-> r.result]
        /\ UNCHANGED <<ctor, walk, collection, calls, reqs, store, taskbar>>

QueryRange(start, end) ==
    /\ Filling
    /\ last' = [op |-> "get_events_for_range", start |-> start, end |-> end,
                result |-> GetEventsForRange(events, start, end)]
    /\ UNCHANGED <<ctor, walk, events, collection, calls, reqs, store, taskbar>>

QueryAvailability(start, end) ==
    /\ Filling
    /\ last' = [op |-> "check_availability", start |-> start, end |-> end,
                result |-> CheckAvailability(events, start, end)]
    /\ UNCHANGED <<ctor, walk, events, collection, calls, reqs, store, taskbar>>

QueryFreeSlotsDraining(start, end, min_duration, work_start, work_end) ==
    /\ Filling
    /\ last' = [op |-> "find_free_slots", start |-> start, end |-> end,
                min_duration |-> min_duration,
                work_start |-> work_start, work_end |-> work_end,
                result |-> FindFreeSlots(events, start, end, min_duration,
                                         work_start, work_end)]
    /\ events' = SubSeq(events, 1, Len(events) - 1)
    /\ UNCHANGED <<ctor, walk, collection, calls, reqs, store, taskbar>>

QueryFreeSlots(start, end, min_duration, work_start, work_end) ==
    /\ Filling
    /\ last' = [op |-> "find_free_slots", start |-> start, end |-> end,
                min_duration |-> min_duration,
                work_start |-> work_start, work_end |-> work_end,
                result |-> FindFreeSlots(events, start, end, min_duration,
                                         work_start, work_end)]
    /\ UNCHANGED <<ctor, walk, events, collection, calls, reqs, store, taskbar>>

QueryStatistics(start, end) ==
    /\ Filling
    /\ last' = [op |-> "get_statistics", start |-> start, end |-> end,
                result |-> GetStatistics(events, start, end)]
    /\ UNCHANGED <<ctor, walk, events, collection, calls, reqs, store, taskbar>>

QueryFirstSlot(duration, start, end, work_start, work_end) ==
    /\ Filling
    /\ last' = [op |-> "find_first_available_slot", start |-> start, end |-> end,
                min_duration |-> duration,
                work_start |-> work_start, work_end |-> work_end,
                result |-> FindFirstAvailableSlot(events, duration, start, end,
                                                  work_start, work_end)]
    /\ UNCHANGED <<ctor, walk, events, collection, calls, reqs, store, taskbar>>

Next ==
    \/ NewCalendar
    \/ \E doc \in CalDocs : LoadEvent(doc)
    \/ \E id \in EventIds : RemoveEvent(id)
    \/ \E r \in CalRanges : QueryRange(r[1], r[2])
    \/ \E r \in CalRanges : QueryAvailability(r[1], r[2])
    \/ \E r \in SlotRanges, m \in MinDurations, w \in WorkHours :
          QueryFreeSlots(r[1], r[2], m, w[1], w[2])
    \/ \E r \in SlotRanges, m \in MinDurations, w \in WorkHours :
          QueryFirstSlot(m, r[1], r[2], w[1], w[2])
    \/ \E r \in CalRanges : QueryStatistics(r[1], r[2])

Spec == Init /\ [][Next]_vars

----------------------------------------------------------------------------
(* CalendarManager: the stored documents and the operations on them *)

\* the smallest step of a datetime, timedelta(microseconds=1): the model
\* keeps datetimes to the tick, so the smallest step is one tick
Resolution == 1

\* dict.get(key, default)
Get(data, key, default) == IF key \in DOMAIN data THEN data[key] ELSE default

\* a datetime as MongoDB hands it back: the stored UTC instant, naive
Stored(t) == Naive(t)

\* what a method of CalendarManager returns, with the collection afterwards
Reply(coll, success, error) ==
    [collection |-> coll, result |-> [success |-> success, error |-> error]]

\* the position of the document with this _id and user_id, 0 when absent
FindOneAnyUser(coll, event_id, user_id) ==
    IF \E i \in 1..Len(coll) : coll[i].id = event_id
    THEN CHOOSE i \in 1..Len(coll) : coll[i].id = event_id
    ELSE 0

FindOne(coll, event_id, user_id) ==
    IF \E i \in 1..Len(coll) : coll[i].id = event_id /\ coll[i].user_id = user_id
    THEN CHOOSE i \in 1..Len(coll) : coll[i].id = event_id /\ coll[i].user_id = user_id
    ELSE 0

\* get_event(event_id, user_id): the document, or None
GetEvent(coll, event_id, user_id) ==
    IF FindOne(coll, event_id, user_id) = 0 THEN <<>>
    ELSE <<coll[FindOne(coll, event_id, user_id)]>>

\* .sort('start_time', 1)
RECURSIVE InsertDocByStart(_, _)
InsertDocByStart(sorted, doc) ==
    IF sorted = <<>> THEN <<doc>>
    ELSE IF Head(sorted).start_time.t <= doc.start_time.t
    THEN <<Head(sorted)>> \o InsertDocByStart(Tail(sorted), doc)
    ELSE <<doc>> \o sorted

RECURSIVE SortDocsByStart(_)
SortDocsByStart(docs) ==
    IF docs = <<>> THEN <<>>
    ELSE InsertDocByStart(SortDocsByStart(SubSeq(docs, 1, Len(docs) - 1)),
                          docs[Len(docs)])

\* get_user_events(user_id): the user's documents, sorted by start_time
OfUser(coll, user_id) == SelectSeq(coll, LAMBDA doc : doc.user_id = user_id)

GetUserEvents(coll, user_id) == SortDocsByStart(OfUser(coll, user_id))

\* one pass of the loop of load_user_calendar: a document whose
\* construction raises is skipped
AddLoaded(calendar, new) ==
    IF new.outcome = "ok" THEN AddEventOp(calendar, new.event) ELSE calendar

RECURSIVE LoadDocs(_, _, _)
LoadDocs(docs, i, calendar) ==
    IF i > Len(docs) THEN calendar
    ELSE LoadDocs(docs, i + 1, AddLoaded(calendar, NewEvent(docs[i])))

\* load_user_calendar(user_id): Calendar.events
LoadUserCalendar(coll, user_id) == LoadDocs(GetUserEvents(coll, user_id), 1, <<>>)

\* _id of insert_one: an id no stored document has
ObjectIds == <<"e1", "e2", "e3">>

InsertedId(coll) ==
    ObjectIds[CHOOSE i \in 1..Len(ObjectIds) :
                /\ \A k \in 1..Len(coll) : coll[k].id # ObjectIds[i]
                /\ \A j \in 1..(i - 1) : \E k \in 1..Len(coll) : coll[k].id = ObjectIds[j]]

\* required = ['title', 'start_time', 'end_time', 'event_type']
RequiredFields == {"title", "start_time", "end_time", "event_type"}

\* the document create_event prepares
NewDoc(coll, user_id, event_data, start_time, end_time) ==
    [id                  |-> InsertedId(coll),
     user_id             |-> user_id,
     title               |-> event_data.title,
     start_time          |-> Stored(start_time),
     end_time            |-> Stored(end_time),
     event_type          |-> event_data.event_type,
     recurrence          |-> Get(event_data, "recurrence", "none"),
     recurrence_end_date |->
         IF "recurrence_end_date" \in DOMAIN event_data
         THEN <<Stored(ParseDatetime(event_data.recurrence_end_date))>>
         ELSE <<>>]

\* what a method does with the answer of check_availability: a conflict
\* returns a failure before anything is written; an exception is caught by
\* the method's except clause; a check that never returns keeps the method
\* from returning
RefusedAfterWrite(coll, avail, error, done) ==
    IF avail.status = "hang"
    THEN [collection |-> coll, result |-> [success |-> FALSE, error |-> "hang"]]
    ELSE IF avail.status # "ok" THEN Reply(coll, FALSE, avail.status)
    ELSE IF ~avail.value THEN Reply(done.collection, FALSE, error)
    ELSE done

Refused(coll, avail, error, done) ==
    IF avail.status = "hang"
    THEN [collection |-> coll, result |-> [success |-> FALSE, error |-> "hang"]]
    ELSE IF avail.status # "ok" THEN Reply(coll, FALSE, avail.status)
    ELSE IF ~avail.value THEN Reply(coll, FALSE, error)
    ELSE done

\* create_event once the times are parsed
CreateParsedUnchecked(coll, user_id, event_data, start_time, end_time) ==
    IF start_time >= end_time
    THEN Reply(coll, FALSE, "Start time must be before end time")
    ELSE Reply(Append(coll, NewDoc(coll, user_id, event_data, start_time, end_time)),
               TRUE, "None")

CreateParsed(coll, user_id, event_data, start_time, end_time) ==
    IF start_time >= end_time
    THEN Reply(coll, FALSE, "Start time must be before end time")
    ELSE IF Get(event_data, "recurrence", "None") = "none"
    THEN Refused(coll,
                 CheckAvailability(LoadUserCalendar(coll, user_id),
                                   Aware(start_time, 0), Aware(end_time, 0)),
                 "Time slot conflicts with existing event",
                 Reply(Append(coll, NewDoc(coll, user_id, event_data, start_time, end_time)),
                       TRUE, "None"))
    ELSE Reply(Append(coll, NewDoc(coll, user_id, event_data, start_time, end_time)),
               TRUE, "None")

\* create_event(user_id, event_data)
CreateEventOp(coll, user_id, event_data) ==
    IF ~(RequiredFields \subseteq DOMAIN event_data)
    THEN Reply(coll, FALSE, "Missing field")
    ELSE CreateParsed(coll, user_id, event_data,
                      ParseDatetime(event_data.start_time),
                      ParseDatetime(event_data.end_time))

\* update_data after its datetime fields went through _parse_datetime,
\* applied to the stored document ($set)
SetFields(doc, update_data) ==
    [doc EXCEPT
       !.title      = Get(update_data, "title", @),
       !.start_time = IF "start_time" \in DOMAIN update_data
                      THEN Stored(ParseDatetime(update_data.start_time)) ELSE @,
       !.end_time   = IF "end_time" \in DOMAIN update_data
                      THEN Stored(ParseDatetime(update_data.end_time)) ELSE @,
       !.recurrence_end_date =
                      IF "recurrence_end_date" \in DOMAIN update_data
                      THEN IF update_data.recurrence_end_date # <<>>
                           THEN <<Stored(ParseDatetime(update_data.recurrence_end_date[1]))>>
                           ELSE <<>>
                      ELSE @]

\* update_one(..., {'$set': update_data}); success is modified_count > 0
UpdateOne(coll, i, doc) ==
    Reply([coll EXCEPT ![i] = doc], coll[i] # doc, "None")

\* update_event once the current document is found at position i
UpdateFound(coll, i, user_id, update_data) ==
    IF "start_time" \in DOMAIN update_data \/ "end_time" \in DOMAIN update_data
    THEN Refused(coll,
                 CheckAvailability(
                     LoadUserCalendar(coll, user_id),
                     Aware(ParseDatetime(Get(update_data, "start_time", coll[i].start_time)), 0),
                     Aware(ParseDatetime(Get(update_data, "end_time", coll[i].end_time)), 0)),
                 "New time conflicts with existing event",
                 UpdateOne(coll, i, SetFields(coll[i], update_data)))
    ELSE UpdateOne(coll, i, SetFields(coll[i], update_data))

\* update_event(event_id, user_id, update_data)
UpdateEventOp(coll, event_id, user_id, update_data) ==
    IF FindOne(coll, event_id, user_id) = 0
    THEN Reply(coll, FALSE, "Event not found")
    ELSE UpdateFound(coll, FindOne(coll, event_id, user_id), user_id, update_data)

\* delete_one({'_id': ..., 'user_id': ...}); success is deleted_count > 0
DeleteOne(coll, event_id, user_id) ==
    IF FindOne(coll, event_id, user_id) = 0
    THEN Reply(coll, FALSE, "None")
    ELSE Reply(SelectSeq(coll, LAMBDA doc : ~(doc.id = event_id /\ doc.user_id = user_id)),
               TRUE, "None")

\* from_date <= original_start: the whole series goes
WholeSeriesStrictlyBefore(from_date, original_start) == from_date < original_start

WholeSeries(from_date, original_start) == from_date <= original_start

\* new_end = from_date - timedelta(microseconds=1), stored as recurrence_end_date
Truncated(doc, from_date) ==
    [doc EXCEPT !.recurrence_end_date = <<Stored(from_date - Resolution)>>]

\* delete_event with delete_future once the document is found at position i
\* and from_date is aware
DeleteFuture(coll, i, event_id, user_id, from_date) ==
    IF coll[i].recurrence = "none"
    THEN DeleteOne(coll, event_id, user_id)
    ELSE IF WholeSeries(from_date, ParseDatetime(coll[i].start_time))
    THEN DeleteOne(coll, event_id, user_id)
    ELSE Reply([coll EXCEPT ![i] = Truncated(coll[i], from_date)], TRUE, "None")

\* delete_event(event_id, user_id, delete_future, from_date); from_date is
\* a sequence of length 0 (None) or 1, now is datetime.now(timezone.utc)
DeleteEventOp(coll, event_id, user_id, delete_future, from_date, now) ==
    IF ~delete_future THEN DeleteOne(coll, event_id, user_id)
    ELSE IF FindOne(coll, event_id, user_id) = 0
    THEN Reply(coll, FALSE, "Event not found")
    ELSE DeleteFuture(coll, FindOne(coll, event_id, user_id), event_id, user_id,
                      IF from_date = <<>> THEN now ELSE EnsureAware(from_date[1]))

----------------------------------------------------------------------------
(* SpecManager: events are created, updated and deleted in the collection *)

\* the collection holds at most MaxDocs documents, and a run makes at most
\* MaxCalls calls
MaxDocs == 2
MaxCalls == 3

UserIds == {"u1", "u2"}

\* 09:00 UTC and 10:00 UTC (given as 12:00 at UTC+2) on 15 December
ManagerStarts ==
    { Aware(At(EpochYear, 12, 15, 9), 0),
      Aware(At(EpochYear, 12, 15, 12), 2 * Hour) }

ManagerLengths == {Hour, 2 * Hour}

EventData(s, n) ==
    [title |-> "t", start_time |-> s, end_time |-> Shift(s, n), event_type |-> "class"]

\* event_data of create_event: without a recurrence, with 'none' and
\* 'daily', daily with an end date two days on; times not in order; no title
CreateData ==
    { EventData(s, n) : s \in ManagerStarts, n \in ManagerLengths }
    \cup { EventData(s, n) @@ ("recurrence" :> "none") :
             s \in ManagerStarts, n \in ManagerLengths }
    \cup { EventData(s, Hour) @@ ("recurrence" :> "daily") : s \in ManagerStarts }
    \cup { EventData(s, Hour) @@ ("recurrence" :> "daily")
                              @@ ("recurrence_end_date" :> Shift(s, 2 * TicksPerDay)) :
             s \in ManagerStarts }
    \cup { EventData(Naive(At(EpochYear, 12, 15, 9)), 0) @@ ("recurrence" :> "none"),
           [start_time |-> Naive(At(EpochYear, 12, 15, 9)),
            end_time   |-> Naive(At(EpochYear, 12, 15, 10)),
            event_type |-> "class"] }

\* update_data of update_event: a later end, an earlier start, both times,
\* the title only, the rule's end date cleared
UpdateData ==
    { [end_time |-> Naive(At(EpochYear, 12, 15, 11))],
      [start_time |-> Aware(At(EpochYear, 12, 15, 10), 2 * Hour)],
      [start_time |-> Naive(At(EpochYear, 12, 15, 10)),
       end_time   |-> Naive(At(EpochYear, 12, 15, 12))],
      [title |-> "t2"],
      [recurrence_end_date |-> <<>>] }

\* from_date of delete_event: none; 09:00 on the 15th; one tick after 09:00
\* on the 16th (given at UTC+2); midnight before the 19th
FromDates ==
    { <<>>,
      <<Naive(At(EpochYear, 12, 15, 9))>>,
      <<Aware(At(EpochYear, 12, 16, 11) + Resolution, 2 * Hour)>>,
      <<Naive(At(EpochYear, 12, 19, 0))>> }

\* datetime.now(timezone.utc)
NowTimes == { At(EpochYear, 12, 16, 12) }

InitManager ==
    /\ ctor = [outcome |-> "none"]
    /\ walk = [pc |-> "idle"]
    /\ events = <<>>
    /\ last = [op |-> "none"]
    /\ collection = <<>>
    /\ calls = 0
    /\ reqs = <<>>
    /\ store = <<>>
    /\ taskbar = [module |-> "unloaded", tasks |-> <<>>]

CreateEvent(user_id, event_data) ==
    LET r == CreateEventOp(collection, user_id, event_data)
    IN  /\ calls < MaxCalls
        /\ Len(collection) < MaxDocs
        /\ calls' = calls + 1
        /\ collection' = r.collection
        /\ last' = [op |-> "create_event", user_id |-> user_id,
                    event_data |-> event_data, result |-> r.result]
        /\ UNCHANGED <<ctor, walk, events, reqs, store, taskbar>>

UpdateEvent(event_id, user_id, update_data) ==
    LET r == UpdateEventOp(collection, event_id, user_id, update_data)
    IN  /\ calls < MaxCalls
        /\ calls' = calls + 1
        /\ collection' = r.collection
        /\ last' = [op |-> "update_event", event_id |-> event_id, user_id |-> user_id,
                    update_data |-> update_data,
                    current |-> GetEvent(collection, event_id, user_id),
                    result |-> r.result]
        /\ UNCHANGED <<ctor, walk, events, reqs, store, taskbar>>

DeleteEvent(event_id, user_id, delete_future, from_date, now) ==
    LET r == DeleteEventOp(collection, event_id, user_id, delete_future, from_date, now)
    IN  /\ calls < MaxCalls
        /\ calls' = calls + 1
        /\ collection' = r.collection
        /\ last' = [op |-> "delete_event", event_id |-> event_id, user_id |-> user_id,
                    delete_future |-> delete_future,
                    from_date |-> IF from_date = <<>> THEN now ELSE EnsureAware(from_date[1]),
                    event |-> IF delete_future
                              THEN GetEvent(collection, event_id, user_id) ELSE <<>>,
                    result |-> r.result]
        /\ UNCHANGED <<ctor, walk, events, reqs, store, taskbar>>

NextManager ==
    \/ \E u \in UserIds, d \in CreateData : CreateEvent(u, d)
    \/ \E i \in 1..Len(ObjectIds), u \in UserIds, d \in UpdateData :
          UpdateEvent(ObjectIds[i], u, d)
    \/ \E i \in 1..Len(ObjectIds), u \in UserIds, f \in FromDates, n \in NowTimes :
          \/ DeleteEvent(ObjectIds[i], u, TRUE, f, n)
          \/ f = <<>> /\ DeleteEvent(ObjectIds[i], u, FALSE, f, n)

SpecManager == InitManager /\ [][NextManager]_vars

----------------------------------------------------------------------------
(* Properties of construction and expansion, checked under SpecExpand *)

\* C1: constructing a CalendarEvent succeeds exactly when start_time <
\* end_time, and fails with the ValueError "Start time must be before end
\* time" for every start_time >= end_time, start_time = end_time included.
C1_ConstructionValidatesRange ==
    ctor.outcome # "none" =>
        /\ ctor.start_time < ctor.end_time => ctor.outcome = "ok"
        /\ ctor.start_time >= ctor.end_time => ctor.outcome = "ValueError"

C1_Witness ==
    /\ ctor.outcome = "ValueError"
    /\ ctor.start_time = ctor.end_time

\* the fixed step of a daily, weekly or biweekly rule, in ticks
FixedStep(recurrence) ==
    CASE recurrence = "daily"    -> TicksPerDay
      [] recurrence = "weekly"   -> 7 * TicksPerDay
      [] recurrence = "biweekly" -> 14 * TicksPerDay

\* the instants b + k*d (k >= 0) inside [start, end) and before the rule's
\* end date when one is set
FixedStepStarts(event, start, end) ==
    LET b == event.start_time
        d == FixedStep(event.recurrence)
    IN  { s \in { b + k * d : k \in 0..((end - b) \div d) } :
            /\ start <= s
            /\ s < end
            /\ \/ event.recurrence_end_date = <<>>
               \/ s < event.recurrence_end_date[1] }

\* C2: for a daily, weekly or biweekly event the expansion returns, in
\* ascending order, exactly one occurrence for each instant b + k*d (k >= 0)
\* with windowStart <= s < windowEnd and s before recurrence_end_date when
\* that is set, and no other occurrence.
C2_FixedStepOccurrences ==
    (walk.pc = "done" /\ walk.event.recurrence \in {"daily", "weekly", "biweekly"}) =>
        LET inst == walk.instances
            want == FixedStepStarts(walk.event, walk.start, walk.end)
        IN  /\ Len(inst) = Cardinality(want)
            /\ \A i \in 1..Len(inst) : inst[i][1] \in want
            /\ \A i \in 1..(Len(inst) - 1) : inst[i][1] < inst[i + 1][1]

\* a daily event at 09:00 over three whole days from its base date: three
\* occurrences, one per day at 09:00
C2_Witness ==
    /\ walk.pc = "done"
    /\ walk.event.recurrence = "daily"
    /\ walk.event.recurrence_end_date = <<>>
    /\ walk.event.start_time = At(EpochYear, 12, 15, 9)
    /\ walk.start = At(EpochYear, 12, 15, 0)
    /\ walk.end = At(EpochYear, 12, 18, 0)
    /\ Len(walk.instances) = 3
    /\ \A i \in 1..3 : walk.instances[i][1] = At(EpochYear, 12, 14 + i, 9)

\* C3: for an event with rule "none" the expansion returns the event's own
\* (start, end) when windowStart <= start < windowEnd and the empty list
\* otherwise; an event that starts before the window and ends inside it is
\* not returned.
C3_NonRecurringStartFilter ==
    (walk.pc = "done" /\ walk.event.recurrence = "none") =>
        walk.instances =
            IF walk.start <= walk.event.start_time /\ walk.event.start_time < walk.end
            THEN << <<walk.event.start_time, walk.event.end_time>> >>
            ELSE <<>>

C3_Witness ==
    /\ walk.pc = "done"
    /\ walk.event.recurrence = "none"
    /\ walk.event.start_time < walk.start
    /\ walk.start < walk.event.end_time
    /\ walk.event.end_time < walk.end
    /\ walk.instances = <<>>

\* C4: every occurrence the expansion produces, for any rule and any window,
\* has end - start equal to the event's end_time - start_time.
C4_DurationPreserved ==
    walk.pc # "idle" =>
        \A i \in 1..Len(walk.instances) :
            walk.instances[i][2] - walk.instances[i][1]
                = walk.event.end_time - walk.event.start_time

\* a monthly event of December whose range starts after its first
\* occurrence: the occurrence of January of the next year is returned
C4_Witness ==
    /\ walk.pc = "done"
    /\ walk.event.recurrence = "monthly"
    /\ walk.event.end_time < walk.start
    /\ Len(walk.instances) = 1
    /\ FromOrdinal(DateOf(walk.instances[1][1])).year = EpochYear + 1

\* C5: for an event whose recurrence is not "none" and whose
\* recurrence_end_date is absent, every iteration of the expansion loop
\* moves the cursor strictly forward (so the loop ends at windowEnd).
C5_CursorAdvances ==
    [][ ( /\ walk.pc = "loop"
          /\ walk'.pc = "loop"
          /\ walk.event.recurrence_end_date = <<>>
          /\ walk'.iters = walk.iters + 1 )
        => walk'.current > walk.current ]_vars

----------------------------------------------------------------------------
(* Properties of the Calendar queries, checked under Spec *)

\* the base start moved k calendar months on, same day and time of day
AddMonths(b, k) ==
    LET d  == FromOrdinal(DateOf(b))
        mi == (d.month - 1) + k
    IN  Combine(ToOrdinal(d.year + (mi \div 12), (mi % 12) + 1, d.day), TimeOf(b))

\* the starts in [start, end) of the occurrences of an event: the event
\* itself for rule "none" (and for a rule that names no step), b + k*d for a
\* fixed step, b moved by whole months for "monthly"; a rule end date cuts
\* a recurring series
OccurrenceStarts(event, start, end) ==
    LET b == event.start_time
    IN  IF event.recurrence = "none"
        THEN {s \in {b} : start <= s /\ s < end}
        ELSE IF event.recurrence \in {"daily", "weekly", "biweekly"}
        THEN FixedStepStarts(event, start, end)
        ELSE { s \in IF event.recurrence = "monthly"
                     THEN { AddMonths(b, k) : k \in 0..((end - b) \div (28 * TicksPerDay)) }
                     ELSE {b} :
                 /\ start <= s
                 /\ s < end
                 /\ \/ event.recurrence_end_date = <<>>
                    \/ s < event.recurrence_end_date[1] }

\* the occurrences (start, end, id) of all events of the calendar that start
\* in [start, end)
Occurrences(evs, start, end) ==
    UNION { { <<s, s + (evs[k].end_time - evs[k].start_time), evs[k].id>> :
                s \in OccurrenceStarts(evs[k], start, end) } : k \in 1..Len(evs) }

\* the list as the set of its elements
Range(seq) == { seq[i] : i \in 1..Len(seq) }

\* C6: get_events_for_range(start, end) returns exactly the union over the
\* calendar's events of expand_recurring_event(event, start, end), each
\* occurrence with its owning event, sorted by occurrence start ascending.
C6_RangeIsSortedUnion ==
    (last.op = "get_events_for_range" /\ last.result.status = "ok") =>
        LET v == last.result.value
            each == [k \in 1..Len(events) |->
                       ExpandRecurringEvent(events[k], last.start, last.end).value]
            want == UNION { { <<each[k][j][1], each[k][j][2], events[k].id>> :
                                j \in 1..Len(each[k]) } : k \in 1..Len(events) }
        IN  /\ Range(v) = want
            /\ Len(v) = Cardinality(want)
            /\ \A i \in 1..(Len(v) - 1) : v[i][1] <= v[i + 1][1]

\* occurrences of both events, the event added second starting first
C6_Witness ==
    /\ last.op = "get_events_for_range"
    /\ last.result.status = "ok"
    /\ Len(events) = 2
    /\ Len(last.result.value) = 4
    /\ last.result.value[1][3] = events[2].id
    /\ last.result.value[2][3] = events[1].id

\* C7: check_availability(start, end) returns False exactly when some
\* occurrence o of some event has start <= o.start < end and start < o.end
\* and end > o.start, and True otherwise; an occurrence that began before
\* start and runs into [start, end) does not make it return False.
C7_AvailabilityIsStartInWindow ==
    (last.op = "check_availability" /\ last.result.status = "ok") =>
        LET start == EnsureAware(last.start)
            end   == EnsureAware(last.end)
        IN  last.result.value = FALSE <=>
                \E k \in 1..Len(events) :
                    \E s \in OccurrenceStarts(events[k], start, end) :
                        LET e == s + (events[k].end_time - events[k].start_time)
                        IN  start <= s /\ s < end /\ start < e /\ end > s

\* True although an event that began before start runs into the range
C7_Witness ==
    /\ last.op = "check_availability"
    /\ last.result.status = "ok"
    /\ last.result.value = TRUE
    /\ \E k \in 1..Len(events) :
          /\ events[k].start_time < EnsureAware(last.start)
          /\ events[k].end_time > EnsureAware(last.start)

\* the dates find_free_slots scans for a search range
ScannedDates(start_date, end_date) ==
    DateOf(EnsureAware(start_date))..(DateOf(EnsureAware(end_date)) - 1)

\* C8: every interval find_free_slots returns is at least min_duration
\* minutes long and lies inside the work window of one scanned date, and the
\* list is in ascending start order with pairwise disjoint intervals.
C8_FreeSlotsWellFormed ==
    (last.op = "find_free_slots" /\ last.result.status = "ok") =>
        LET v == last.result.value
        IN  /\ \A i \in 1..Len(v) :
                  /\ v[i][2] - v[i][1] >= last.min_duration
                  /\ \E d \in ScannedDates(last.start, last.end) :
                        /\ Combine(d, last.work_start) <= v[i][1]
                        /\ v[i][2] <= Combine(d, last.work_end)
            /\ \A i \in 1..(Len(v) - 1) : v[i][2] <= v[i + 1][1]

\* slots on two scanned days around the events of a calendar
C8_Witness ==
    /\ last.op = "find_free_slots"
    /\ last.result.status = "ok"
    /\ Len(events) = 2
    /\ Len(last.result.value) >= 4
    /\ DateOf(last.result.value[1][1]) # DateOf(last.result.value[4][1])

\* the occurrences of a scanned date d whose start lies in its work window
DayOccurrences(evs, d, work_start, work_end) ==
    Occurrences(evs, Combine(d, work_start), Combine(d, work_end))

\* the maximal sub-intervals of [lo, hi) that no occurrence of occ covers
MaximalGaps(occ, lo, hi) ==
    { g \in ({lo} \cup { o[2] : o \in occ }) \X ({hi} \cup { o[1] : o \in occ }) :
        /\ lo <= g[1]
        /\ g[1] < g[2]
        /\ g[2] <= hi
        /\ \A o \in occ : ~(o[1] < g[2] /\ o[2] > g[1]) }

\* C9: for each scanned day whose occurrences starting in the work window
\* are pairwise non-overlapping, find_free_slots returns for that day
\* exactly the maximal sub-intervals of the work window not covered by those
\* occurrences whose length is at least min_duration.
C9_FreeSlotsAreMaximalGaps ==
    (last.op = "find_free_slots" /\ last.result.status = "ok") =>
        \A d \in ScannedDates(last.start, last.end) :
            LET lo  == Combine(d, last.work_start)
                hi  == Combine(d, last.work_end)
                occ == DayOccurrences(events, d, last.work_start, last.work_end)
            IN  (\A o1 \in occ : \A o2 \in occ :
                     o1 # o2 => ~(o1[1] < o2[2] /\ o2[1] < o1[2]))
                =>
                { g \in Range(last.result.value) : lo <= g[1] /\ g[1] < hi }
                    = { g \in MaximalGaps(occ, lo, hi) :
                          g[2] - g[1] >= last.min_duration }

\* one busy block 09:00-10:00, work hours 08:00-22:00, min_duration 90:
\* only [10:00, 22:00) is returned
C9_Witness ==
    /\ last.op = "find_free_slots"
    /\ last.result.status = "ok"
    /\ last.min_duration = 90
    /\ Len(events) = 1
    /\ events[1].recurrence = "none"
    /\ events[1].start_time = At(EpochYear, 12, 15, 9)
    /\ events[1].end_time = At(EpochYear, 12, 15, 10)
    /\ last.result.value = << <<At(EpochYear, 12, 15, 10), At(EpochYear, 12, 15, 22)>> >>

\* C10: find_first_available_slot(duration, start, end, ...) returns None
\* exactly when find_free_slots(start, end, duration, ...) is empty;
\* otherwise it returns (s, s + duration), s the start of the first free
\* slot, and that interval lies inside the first free slot.
C10_FirstSlotFromFreeSlots ==
    (last.op = "find_first_available_slot" /\ last.result.status = "ok") =>
        LET free == FindFreeSlots(events, last.start, last.end, last.min_duration,
                                  last.work_start, last.work_end).value
            v    == last.result.value
        IN  /\ v = <<>> <=> free = <<>>
            /\ free # <<>> =>
                  /\ v = << <<free[1][1], free[1][1] + last.min_duration>> >>
                  /\ free[1][1] <= v[1][1]
                  /\ v[1][2] <= free[1][2]

\* a slot returned that is shorter than the first free slot it lies in
C10_Witness ==
    /\ last.op = "find_first_available_slot"
    /\ last.result.status = "ok"
    /\ last.result.value # <<>>
    /\ events # <<>>
    /\ last.result.value[1][2] - last.result.value[1][1] = last.min_duration
    /\ last.result.value[1][2] <
          FindFreeSlots(events, last.start, last.end, last.min_duration,
                        last.work_start, last.work_end).value[1][2]

\* the fields of the result of get_statistics when the range has occurrences
StatisticsFields ==
    DOMAIN Statistics(<<[id |-> "e1", event_type |-> "class"]>>,
                      << <<0, Hour, "e1">> >>)

\* the value of a field of a result, as a sequence of length 0 or 1
FieldOf(result, name) ==
    IF name \in DOMAIN result THEN <<result[name]>> ELSE <<>>

\* C11: get_statistics over a range containing no occurrence returns,
\* without error, a result with the same four fields as in the non-empty
\* case (count, total hours, average duration in minutes, count by
\* category), with values 0, 0, 0 and the empty mapping.
C11_EmptyStatistics ==
    ( /\ last.op = "get_statistics"
      /\ last.result.status = "ok"
      /\ Occurrences(events, EnsureAware(last.start), EnsureAware(last.end)) = {} )
    => /\ DOMAIN last.result.value = StatisticsFields
       /\ FieldOf(last.result.value, "total_events") = <<0>>
       /\ FieldOf(last.result.value, "total_hours") = <<0>>
       /\ FieldOf(last.result.value, "average_duration_minutes") = <<0>>
       /\ FieldOf(last.result.value, "events_by_type") = << <<>> >>

----------------------------------------------------------------------------
(* Properties of CalendarManager, checked under SpecManager *)

\* the stored documents, as a set
Docs(coll) == { coll[k] : k \in 1..Len(coll) }

\* C12: delete_event with delete_future=True removes the whole event
\* document when the event is non-recurring, or when it is recurring and
\* from_date is at or before the series' own start_time (from_date exactly
\* equal to start_time included).
C12_DeleteFutureRemovesDocument ==
    [][ ( /\ calls' = calls + 1
          /\ last'.op = "delete_event"
          /\ last'.delete_future
          /\ last'.event # <<>>
          /\ \/ last'.event[1].recurrence = "none"
             \/ last'.from_date <= ParseDatetime(last'.event[1].start_time) )
        => /\ last'.result.success
           /\ Docs(collection') = Docs(collection) \ {last'.event[1]}
           /\ Len(collection') = Len(collection) - 1 ]_vars

\* a daily series deleted with from_date exactly its start_time
C12_Witness ==
    /\ last.op = "delete_event"
    /\ last.delete_future
    /\ last.event # <<>>
    /\ last.event[1].recurrence = "daily"
    /\ last.from_date = ParseDatetime(last.event[1].start_time)
    /\ last.result.success
    /\ \A k \in 1..Len(collection) : collection[k].id # last.event_id
    /\ Len(collection) = 1

\* the windows the series is expanded over: the week from 15 December, and
\* the days around the 16th
SeriesWindows ==
    { <<Naive(At(EpochYear, 12, 15, 0)), Naive(At(EpochYear, 12, 22, 0))>>,
      <<Naive(At(EpochYear, 12, 16, 0)), Naive(At(EpochYear, 12, 18, 0))>> }

\* the occurrences of the series of a stored document over a window
SeriesOver(doc, w) == Range(ExpandRecurringEvent(NewEvent(doc).event, w[1], w[2]).value)

\* C13: for a recurring series and a boundary B strictly after the series
\* start, delete_event(delete_future=True, from_date=B) keeps the document,
\* sets recurrence_end_date to B minus one tick, and afterwards expansion
\* over any window yields exactly the occurrences the series had before
\* whose start is earlier than B: every earlier one is preserved (one
\* starting exactly one tick before B included), none at or after B
\* remains, none is added.
C13_TruncationKeepsEarlierOccurrences ==
    [][ ( /\ calls' = calls + 1
          /\ last'.op = "delete_event"
          /\ last'.delete_future
          /\ last'.event # <<>>
          /\ last'.event[1].recurrence # "none"
          /\ last'.from_date > ParseDatetime(last'.event[1].start_time) )
        => LET i == FindOne(collection', last'.event_id, last'.user_id)
           IN  /\ i # 0
               /\ Len(collection'[i].recurrence_end_date) = 1
               /\ ParseDatetime(collection'[i].recurrence_end_date[1])
                     = last'.from_date - Resolution
               /\ \A w \in SeriesWindows :
                     SeriesOver(collection'[i], w)
                       = { o \in SeriesOver(last'.event[1], w) : o[1] < last'.from_date } ]_vars

\* check_availability on the user's calendar says the interval is taken
Taken(coll, user_id, start_time, end_time) ==
    LET avail == CheckAvailability(LoadUserCalendar(coll, user_id),
                                   Aware(start_time, 0), Aware(end_time, 0))
    IN  avail.status = "ok" /\ ~avail.value

\* create_event reaches its conflict check and the check finds a conflict
CreateConflict(coll, user_id, event_data) ==
    /\ RequiredFields \subseteq DOMAIN event_data
    /\ ParseDatetime(event_data.start_time) < ParseDatetime(event_data.end_time)
    /\ "recurrence" \in DOMAIN event_data
    /\ event_data.recurrence = "none"
    /\ Taken(coll, user_id, ParseDatetime(event_data.start_time),
             ParseDatetime(event_data.end_time))

\* update_event reaches its conflict check and the check finds a conflict
UpdateConflict(coll, user_id, current, update_data) ==
    /\ current # <<>>
    /\ {"start_time", "end_time"} \cap DOMAIN update_data # {}
    /\ Taken(coll, user_id,
             ParseDatetime(Get(update_data, "start_time", current[1].start_time)),
             ParseDatetime(Get(update_data, "end_time", current[1].end_time)))

\* C14: when create_event or update_event detects a scheduling conflict
\* (check_availability returns False for the requested interval), the
\* operation returns a failure and commits nothing: the stored documents
\* are the same before and after the call.
C14_ConflictCommitsNothing ==
    [][ ( /\ calls' = calls + 1
          /\ \/ /\ last'.op = "create_event"
                /\ CreateConflict(collection, last'.user_id, last'.event_data)
             \/ /\ last'.op = "update_event"
                /\ UpdateConflict(collection, last'.user_id, last'.current,
                                  last'.update_data) )
        => /\ ~last'.result.success
           /\ collection' = collection ]_vars

\* an update refused because the new time runs into the user's other event
C14_Witness ==
    /\ last.op = "update_event"
    /\ last.current # <<>>
    /\ ~last.result.success
    /\ last.result.error = "New time conflicts with existing event"
    /\ \E k \in 1..Len(collection) :
          /\ collection[k].user_id = last.user_id
          /\ collection[k].id # last.event_id
          /\ ParseDatetime(collection[k].start_time)
                >= ParseDatetime(last.current[1].end_time)
    /\ last.current[1] \in Docs(collection)

\* the collection without the document being updated
Others(coll, current) == SelectSeq(coll, LAMBDA doc : doc # current[1])

\* C15: update_event that changes start_time or end_time checks the new
\* interval against the user's other events only, not the event being
\* updated: an update whose new interval overlaps no other event succeeds
\* even when it overlaps the event's own stored interval.
C15_UpdateIgnoresOwnInterval ==
    [][ ( /\ calls' = calls + 1
          /\ last'.op = "update_event"
          /\ last'.current # <<>>
          /\ {"start_time", "end_time"} \cap DOMAIN last'.update_data # {}
          /\ ~UpdateConflict(Others(collection, last'.current), last'.user_id,
                             last'.current, last'.update_data) )
        => /\ last'.result.error = "None"
           /\ SetFields(last'.current[1], last'.update_data) \in Docs(collection') ]_vars

\* C16: create_event runs the conflict check exactly when the event is
\* non-recurring, i.e. when the document it stores has recurrence 'none'
\* (a recurrence omitted from the input, which defaults to 'none',
\* included); an event created with rule daily, weekly, biweekly or monthly
\* is committed without a conflict check even if it overlaps existing events.
C16_CreateChecksNonRecurring ==
    [][ ( /\ calls' = calls + 1
          /\ last'.op = "create_event"
          /\ RequiredFields \subseteq DOMAIN last'.event_data
          /\ ParseDatetime(last'.event_data.start_time)
                < ParseDatetime(last'.event_data.end_time) )
        => LET stored == Get(last'.event_data, "recurrence", "none")
               taken  == Taken(collection, last'.user_id,
                               ParseDatetime(last'.event_data.start_time),
                               ParseDatetime(last'.event_data.end_time))
           IN  /\ (stored = "none" /\ taken)
                    => (~last'.result.success /\ collection' = collection)
               /\ (stored \in {"daily", "weekly", "biweekly", "monthly"})
                    => (last'.result.success /\ Len(collection') = Len(collection) + 1) ]_vars

----------------------------------------------------------------------------
(* Properties of the rule's end date, the monthly rule and the rule tag,   *)
(* checked under SpecExpand                                                *)

\* the event without its rule end date
Unbounded(event) == [event EXCEPT !.recurrence_end_date = <<>>]

\* C17: recurrence_end_date is inclusive: for a recurring event, an
\* occurrence whose start is exactly equal to recurrence_end_date (and lies
\* inside the query window) is returned by expand_recurring_event.
C17_RuleEndInclusive ==
    ( /\ walk.pc = "done"
      /\ walk.event.recurrence \in RecurrenceTypes \ {"none"}
      /\ walk.event.recurrence_end_date # <<>>
      /\ walk.event.recurrence_end_date[1]
            \in OccurrenceStarts(Unbounded(walk.event), walk.start, walk.end) )
    => \E i \in 1..Len(walk.instances) :
          walk.instances[i][1] = walk.event.recurrence_end_date[1]

\* d2 is the date one calendar month after d1, same day of the month
MonthAfter(d1, d2) ==
    /\ d2.day = d1.day
    /\ \/ d1.month < 12 /\ d2.month = d1.month + 1 /\ d2.year = d1.year
       \/ d1.month = 12 /\ d2.month = 1 /\ d2.year = d1.year + 1

\* C18: for a monthly event whose start day-of-month is at most 28,
\* consecutive occurrences keep the day-of-month and the time of day and
\* advance the month by one, December of year y rolling over to January of
\* year y+1 (never month 13, never staying in year y).
C18_MonthlyKeepsDayAndRollsOver ==
    [][ ( /\ walk.pc = "loop"
          /\ walk'.pc # "idle"
          /\ walk'.iters = walk.iters + 1
          /\ walk.event.recurrence = "monthly"
          /\ FromOrdinal(DateOf(walk.event.start_time)).day <= 28 )
        => /\ walk'.pc = "loop"
           /\ TimeOf(walk'.current) = TimeOf(walk.current)
           /\ MonthAfter(FromOrdinal(DateOf(walk.current)),
                         FromOrdinal(DateOf(walk'.current))) ]_vars

\* the occurrences of 15 December and 15 January of the next year were
\* returned and the cursor stands on 15 February
C18_Witness ==
    /\ walk.pc = "loop"
    /\ walk.event.recurrence = "monthly"
    /\ Len(walk.instances) = 2
    /\ FromOrdinal(DateOf(walk.instances[1][1])) = [year |-> EpochYear, month |-> 12, day |-> 15]
    /\ FromOrdinal(DateOf(walk.instances[2][1])) = [year |-> EpochYear + 1, month |-> 1, day |-> 15]
    /\ FromOrdinal(DateOf(walk.current)) = [year |-> EpochYear + 1, month |-> 2, day |-> 15]
    /\ TimeOf(walk.current) = TimeOf(walk.event.start_time)

\* C19: an event whose recurrence tag is not one of none, daily, weekly,
\* biweekly, monthly is rejected with an InvalidRecurrenceRule error when it
\* is constructed; it is never accepted and then treated as a no-op rule
\* during expansion.
C19_UnknownRuleRejected ==
    /\ ( /\ ctor.outcome # "none"
         /\ ctor.event.recurrence \notin RecurrenceTypes
         /\ ctor.start_time < ctor.end_time )
          => ctor.outcome = "InvalidRecurrenceRule"
    /\ walk.pc # "idle" => walk.event.recurrence \in RecurrenceTypes

\* C20: expanding a monthly event whose start day-of-month does not exist
\* in a later month reached inside the window (day 29, 30 or 31, e.g.
\* 31 January followed by February) does not crash: expand_recurring_event
\* returns a result or a typed error value, it does not raise.
C20_MonthlyOverflowDoesNotRaise ==
    ( /\ walk.pc # "idle"
      /\ walk.event.recurrence = "monthly"
      /\ FromOrdinal(DateOf(walk.event.start_time)).day > 28 )
    => walk.pc # "raised"

\* C21: update_event and delete_event (with or without delete_future) on an
\* event id that does not exist for the given user return a failure result
\* with the error 'Event not found' and leave every stored document unchanged.
C21_MissingEventNotFound ==
    [][ ( /\ calls' = calls + 1
          /\ last'.op \in {"update_event", "delete_event"}
          /\ GetEvent(collection, last'.event_id, last'.user_id) = <<>> )
        => /\ ~last'.result.success
           /\ last'.result.error = "Event not found"
           /\ collection' = collection ]_vars

\* the documents of the collection that belong to users other than user_id
NotOf(coll, user_id) == SelectSeq(coll, LAMBDA doc : doc.user_id # user_id)

\* C22: access is scoped to the owning user. The get_event(event_id, user_id)
\* that update_event and delete_event (delete_future) make returns the
\* document with that id exactly when it belongs to user_id; an update or a
\* delete by a user who does not own the event fails, and every call leaves
\* the documents of all other users, that event included, unchanged.
C22_ScopedToOwner ==
    [][ ( /\ calls' = calls + 1
          /\ last'.op \in {"update_event", "delete_event"} )
        => LET found == IF last'.op = "update_event" THEN last'.current
                        ELSE IF last'.delete_future THEN last'.event
                        ELSE GetEvent(collection, last'.event_id, last'.user_id)
               owned == { doc \in Docs(collection) :
                            doc.id = last'.event_id /\ doc.user_id = last'.user_id }
           IN  /\ found # <<>> => owned = {found[1]}
               /\ found = <<>> => owned = {}
               /\ owned = {} => ~last'.result.success
               /\ NotOf(collection', last'.user_id) = NotOf(collection, last'.user_id) ]_vars

\* an update or delete aimed at another user's stored event was refused
C22_Witness ==
    /\ last.op \in {"update_event", "delete_event"}
    /\ \E k \in 1..Len(collection) :
          /\ collection[k].id = last.event_id
          /\ collection[k].user_id # last.user_id
    /\ ~last.result.success

----------------------------------------------------------------------------
(* Further properties of Calendar, checked under Spec *)

\* C23: find_free_slots moves its cursor to the later of the cursor and the
\* end of each occurrence, so the cursor never moves backward and no
\* returned slot overlaps an occurrence that starts in the work window of a
\* scanned day, also when occurrences overlap or are nested.
C23_SlotsAvoidOccurrences ==
    (last.op = "find_free_slots" /\ last.result.status = "ok") =>
        \A d \in ScannedDates(last.start, last.end) :
            \A o \in DayOccurrences(events, d, last.work_start, last.work_end) :
                \A g \in Range(last.result.value) :
                    ~(o[1] < g[2] /\ o[2] > g[1])

----------------------------------------------------------------------------
(* Further properties of CalendarManager, checked under SpecManager *)

\* no two stored documents of the user overlap:
\* a.start < b.end and a.end > b.start for no pair
NoOverlap(coll, user_id) ==
    \A i \in 1..Len(coll) : \A j \in 1..Len(coll) :
        (i # j /\ coll[i].user_id = user_id /\ coll[j].user_id = user_id)
        => ~(coll[i].start_time.t < coll[j].end_time.t
             /\ coll[i].end_time.t > coll[j].start_time.t)

\* C24: starting from an empty store, after any sequence of create_event
\* calls for one user, all with recurrence 'none', no two stored events
\* overlap. Stated for one more call: when every call so far was a create
\* that stored a non-recurring event and the user's events do not overlap,
\* a create_event with recurrence 'none' leaves them non-overlapping.
C24_CreatesNeverOverlap ==
    [][ ( /\ calls' = calls + 1
          /\ calls = Len(collection)
          /\ calls > 0 => /\ last.op = "create_event"
                          /\ Get(last.event_data, "recurrence", "None") = "none"
          /\ last'.op = "create_event"
          /\ Get(last'.event_data, "recurrence", "None") = "none"
          /\ \A k \in 1..Len(collection) : collection[k].recurrence = "none"
          /\ NoOverlap(collection, last'.user_id) )
        => NoOverlap(collection', last'.user_id) ]_vars

----------------------------------------------------------------------------
(* Frame properties of Calendar, checked under Spec *)

QueryOps ==
    {"get_events_for_range", "check_availability", "find_free_slots",
     "find_first_available_slot", "get_statistics"}

\* C25: the query operations (get_events_for_range, check_availability,
\* find_free_slots, find_first_available_slot, get_statistics, and the
\* expand_recurring_event calls they make) leave the Calendar's event map
\* and every event in it unchanged; on one Calendar only add_event and
\* remove_event change the map.
C25_QueriesLeaveEventsUnchanged ==
    [][ /\ last'.op \in QueryOps => events' = events
        /\ (events' # events /\ last'.op # "none")
               => last'.op \in {"add_event", "remove_event"} ]_vars

\* a free-slot query answered over a Calendar of two events
C25_Witness ==
    /\ last.op = "find_free_slots"
    /\ last.result.status = "ok"
    /\ last.result.value # <<>>
    /\ Len(events) = 2

\* the ids of the events of a Calendar
IdsOf(evs) == { evs[k].id : k \in 1..Len(evs) }

\* C26: after any sequence of add_event and remove_event the map holds at
\* most one event per id (an add with an id already present replaces that
\* entry, keeping the other ids); remove_event(id) returns True exactly when
\* the id is present, removes exactly that entry, and returns False and
\* leaves the map unchanged when it is absent.
C26_OneEventPerId ==
    [][ /\ \A i \in 1..Len(events') : \A j \in 1..Len(events') :
               events'[i].id = events'[j].id => i = j
        /\ last'.op = "add_event" =>
               /\ IdsOf(events) \subseteq IdsOf(events')
               /\ Cardinality(IdsOf(events') \ IdsOf(events)) <= 1
        /\ last'.op = "remove_event" =>
               /\ last'.result = (last'.event_id \in IdsOf(events))
               /\ Range(events') = { e \in Range(events) : e.id # last'.event_id }
               /\ ~last'.result => events' = events ]_vars

\* one of two events was removed by its id
C26_Witness ==
    /\ last.op = "remove_event"
    /\ last.result = TRUE
    /\ Len(events) = 1
    /\ events[1].id # last.event_id

\* C29: every free slot find_free_slots returns lies inside the requested
\* search range: its start is at or after start_date and its end is at or
\* before end_date; consequently find_first_available_slot never returns a
\* slot that begins before its start argument.
C29_SlotsInsideSearchRange ==
    /\ (last.op = "find_free_slots" /\ last.result.status = "ok") =>
          \A g \in Range(last.result.value) :
              /\ g[1] >= EnsureAware(last.start)
              /\ g[2] <= EnsureAware(last.end)
    /\ (last.op = "find_first_available_slot" /\ last.result.status = "ok") =>
          \A g \in Range(last.result.value) : g[1] >= EnsureAware(last.start)

\* C24 as the code has it: a create_event with recurrence 'none' that
\* succeeds stores an event whose interval [start, end) contains the start
\* of no event the user already has; an event that starts strictly inside
\* an existing one is stored next to it.
C24_CreateNeverCoversEarlierStart ==
    [][ ( /\ calls' = calls + 1
          /\ calls = Len(collection)
          /\ last'.op = "create_event"
          /\ Get(last'.event_data, "recurrence", "None") = "none"
          /\ \A k \in 1..Len(collection) : collection[k].recurrence = "none"
          /\ last'.result.success )
        => /\ Len(collection') = Len(collection) + 1
           /\ SubSeq(collection', 1, Len(collection)) = collection
           /\ LET new == collection'[Len(collection')]
              IN  /\ new.start_time.t < new.end_time.t
                  /\ \A k \in 1..Len(collection) :
                        collection[k].user_id = last'.user_id
                        => ~(new.start_time.t <= collection[k].start_time.t
                             /\ collection[k].start_time.t < new.end_time.t) ]_vars

\* a second event was stored that starts inside the user's first one
C24_Witness ==
    /\ last.op = "create_event"
    /\ Get(last.event_data, "recurrence", "None") = "none"
    /\ last.result.success
    /\ Len(collection) = 2
    /\ collection[1].user_id = collection[2].user_id
    /\ collection[1].recurrence = "none"
    /\ collection[1].start_time.t < collection[2].start_time.t
    /\ collection[2].start_time.t < collection[1].end_time.t

\* C29 as the code has it: find_free_slots scans whole days, so every
\* free slot starts at or after the start of the work window on the date
\* of start_date (which can be before start_date itself) and ends at or
\* before end_date; the slot find_first_available_slot returns begins at or
\* after the start of the work window on the date of its start argument.
C29_SlotsInsideScannedDays ==
    /\ (last.op = "find_free_slots" /\ last.result.status = "ok") =>
          \A g \in Range(last.result.value) :
              /\ g[1] >= Combine(DateOf(EnsureAware(last.start)), last.work_start)
              /\ g[2] <= EnsureAware(last.end)
    /\ (last.op = "find_first_available_slot" /\ last.result.status = "ok") =>
          \A g \in Range(last.result.value) :
              g[1] >= Combine(DateOf(EnsureAware(last.start)), last.work_start)

\* a search from 11:00 answered with a slot that begins at 08:00 that day
C29_Witness ==
    /\ last.op \in {"find_free_slots", "find_first_available_slot"}
    /\ last.result.status = "ok"
    /\ last.result.value # <<>>
    /\ last.result.value[1][1] < EnsureAware(last.start)
    /\ DateOf(last.result.value[1][1]) = DateOf(EnsureAware(last.start))

----------------------------------------------------------------------------
(* SpecRace: two POST /api/calendar/events requests of one user run
   CalendarManager.create_event against the same collection. The find of
   load_user_calendar and the insert_one are separate database operations
   and nothing in create_event holds the collection between them *)

Requests == {1, 2}

\* a create_event call of the one user ('u1'): where it stands, what it
\* was given, the Calendar it loaded and what it returned
Request(pc, event_data, calendar, success, error) ==
    [pc |-> pc, event_data |-> event_data, calendar |-> calendar,
     result |-> [success |-> success, error |-> error]]

\* create_event up to the conflict check: required fields, parsed times,
\* start before end; only recurrence 'none' goes on to load the calendar
Arrived(event_data) ==
    IF ~(RequiredFields \subseteq DOMAIN event_data)
    THEN Request("done", event_data, <<>>, FALSE, "Missing field")
    ELSE IF ParseDatetime(event_data.start_time) >= ParseDatetime(event_data.end_time)
    THEN Request("done", event_data, <<>>, FALSE,
                 "Start time must be before end time")
    ELSE IF Get(event_data, "recurrence", "None") = "none"
    THEN Request("load", event_data, <<>>, FALSE, "None")
    ELSE Request("insert", event_data, <<>>, FALSE, "None")

InitRace ==
    /\ ctor = [outcome |-> "none"]
    /\ walk = [pc |-> "idle"]
    /\ events = <<>>
    /\ last = [op |-> "none"]
    /\ collection = <<>>
    /\ calls = 0
    /\ reqs = [r \in Requests |-> Request("idle", <<>>, <<>>, FALSE, "None")]
    /\ store = <<>>
    /\ taskbar = [module |-> "unloaded", tasks |-> <<>>]

\* the handler is entered and create_event validates event_data
Arrive(r, event_data) ==
    /\ reqs[r].pc = "idle"
    /\ reqs' = [reqs EXCEPT ![r] = Arrived(event_data)]
    /\ UNCHANGED <<ctor, walk, events, last, collection, calls, store, taskbar>>

\* calendar = self.load_user_calendar(user_id): the find on the collection
Load(r) ==
    /\ reqs[r].pc = "load"
    /\ reqs' = [reqs EXCEPT ![r] = Request("check", @.event_data,
                                           LoadUserCalendar(collection, "u1"),
                                           FALSE, "None")]
    /\ UNCHANGED <<ctor, walk, events, last, collection, calls, store, taskbar>>

\* if not calendar.check_availability(start_time, end_time): return ...
\* on the Calendar the request loaded
Check(r) ==
    LET req   == reqs[r]
        avail == CheckAvailability(req.calendar,
                                   Aware(ParseDatetime(req.event_data.start_time), 0),
                                   Aware(ParseDatetime(req.event_data.end_time), 0))
    IN  /\ req.pc = "check"
        /\ reqs' = [reqs EXCEPT ![r] =
                      IF avail.status # "ok"
                      THEN Request("done", req.event_data, req.calendar, FALSE, avail.status)
                      ELSE IF ~avail.value
                      THEN Request("done", req.event_data, req.calendar, FALSE,
                                   "Time slot conflicts with existing event")
                      ELSE Request("insert", req.event_data, req.calendar, FALSE, "None")]
        /\ UNCHANGED <<ctor, walk, events, last, collection, calls, store, taskbar>>

\* self.collection.insert_one(doc); return success
Insert(r) ==
    /\ reqs[r].pc = "insert"
    /\ collection' = Append(collection,
                            NewDoc(collection, "u1", reqs[r].event_data,
                                   ParseDatetime(reqs[r].event_data.start_time),
                                   ParseDatetime(reqs[r].event_data.end_time)))
    /\ reqs' = [reqs EXCEPT ![r] = Request("done", @.event_data, @.calendar, TRUE, "None")]
    /\ UNCHANGED <<ctor, walk, events, last, calls, store, taskbar>>

NextRace ==
    \/ \E r \in Requests, d \in CreateData : Arrive(r, d)
    \/ \E r \in Requests : Load(r)
    \/ \E r \in Requests : Check(r)
    \/ \E r \in Requests : Insert(r)

SpecRace == InitRace /\ [][NextRace]_vars

\* both requests ask for recurrence 'none' and their intervals overlap
RaceOverlap(a, b) ==
    /\ Get(a.event_data, "recurrence", "None") = "none"
    /\ Get(b.event_data, "recurrence", "None") = "none"
    /\ ParseDatetime(a.event_data.start_time) < ParseDatetime(b.event_data.end_time)
    /\ ParseDatetime(a.event_data.end_time) > ParseDatetime(b.event_data.start_time)

\* C27: when two create_event requests of one user with overlapping
\* non-recurring intervals run concurrently (each loads a fresh calendar,
\* checks availability, then inserts), at most one of them commits: no
\* interleaving of their load, check and insert steps ends with both events
\* stored. Stated for two requests that both loaded the user's calendar
\* before either inserted.
C27_AtMostOneCommits ==
    \A a \in Requests : \A b \in Requests :
        ( /\ a # b
          /\ reqs[a].pc = "done"
          /\ reqs[b].pc = "done"
          /\ RequiredFields \subseteq DOMAIN reqs[a].event_data
          /\ RequiredFields \subseteq DOMAIN reqs[b].event_data
          /\ RaceOverlap(reqs[a], reqs[b])
          /\ reqs[a].calendar = <<>>
          /\ reqs[b].calendar = <<>> )
        => ~(reqs[a].result.success /\ reqs[b].result.success)

----------------------------------------------------------------------------
(* campus_calendar.InMemoryCalendarManager: the fallback the API uses when
   MongoDB is not available. Datetimes are kept as ISO strings *)

\* an ISO datetime string: the wall-clock time and the zone suffix as
\* written ("" for none); "bad" stands for a text that is no ISO datetime
Iso(t, zone) == [t |-> t, zone |-> zone]

\* datetime.fromisoformat(s.replace('Z', '+00:00'))
FromIsoFormat(s) ==
    IF s.zone = "bad" THEN [status |-> "ValueError", value |-> Naive(0)]
    ELSE [status |-> "ok",
          value  |-> IF s.zone = "" THEN Naive(s.t)
                     ELSE Aware(s.t, IF s.zone = "+02:00" THEN 2 * Hour ELSE 0)]

\* dt.isoformat(): the wall-clock time with the offset as +HH:MM
IsoFormat(dt) ==
    Iso(dt.t, IF ~dt.aware THEN "" ELSE IF dt.off = 0 THEN "+00:00" ELSE "+02:00")

\* comparing an offset-naive with an offset-aware datetime raises TypeError
Comparable(a, b) == a.aware = b.aware

\* the instant two comparable datetimes are ordered by
Instant(dt) == dt.t - dt.off

\* what a method of the manager returns (or the exception it lets out),
\* with the store afterwards
MemoryReply(st, status, success, error) ==
    [store |-> st, result |-> [status |-> status, success |-> success, error |-> error]]

\* the position in the user's list of the event with this _id, 0 when absent
MemoryIndex(st, event_id, user_id) ==
    IF \E i \in 1..Len(st[user_id]) : st[user_id][i].id = event_id
    THEN CHOOSE i \in 1..Len(st[user_id]) :
             /\ st[user_id][i].id = event_id
             /\ \A j \in 1..(i - 1) : st[user_id][j].id # event_id
    ELSE 0

\* str(uuid4()): an id no stored event has
MemoryNewId(st) ==
    ObjectIds[CHOOSE i \in 1..Len(ObjectIds) :
                /\ \A u \in DOMAIN st : \A k \in 1..Len(st[u]) : st[u][k].id # ObjectIds[i]
                /\ \A j \in 1..(i - 1) :
                      \E u \in DOMAIN st : \E k \in 1..Len(st[u]) : st[u][k].id = ObjectIds[j]]

\* one stored event against the new interval: its strings are parsed, then
\* if not (end <= ev_start or start >= ev_end), with the exceptions the
\* parsing and the two comparisons can raise
ConflictWith(start, end, ev) ==
    IF FromIsoFormat(ev.start_time).status # "ok" THEN "ValueError"
    ELSE IF FromIsoFormat(ev.end_time).status # "ok" THEN "ValueError"
    ELSE IF ~Comparable(end, FromIsoFormat(ev.start_time).value) THEN "TypeError"
    ELSE IF Instant(end) <= Instant(FromIsoFormat(ev.start_time).value) THEN "free"
    ELSE IF ~Comparable(start, FromIsoFormat(ev.end_time).value) THEN "TypeError"
    ELSE IF Instant(start) >= Instant(FromIsoFormat(ev.end_time).value) THEN "free"
    ELSE "conflict"

\* for ev in user_events: from event i on, then the append
RECURSIVE ConflictScan(_, _, _, _, _, _)
ConflictScan(st, user_id, event_data, start, end, i) ==
    IF i > Len(st[user_id])
    THEN MemoryReply([st EXCEPT ![user_id] =
                         Append(@, [id         |-> MemoryNewId(st),
                                    user_id    |-> user_id,
                                    title      |-> event_data.title,
                                    start_time |-> IsoFormat(start),
                                    end_time   |-> IsoFormat(end),
                                    event_type |-> event_data.event_type,
                                    recurrence |-> Get(event_data, "recurrence", "none")])],
                     "ok", TRUE, "None")
    ELSE LET c == ConflictWith(start, end, st[user_id][i])
         IN  IF c = "conflict"
             THEN MemoryReply(st, "ok", FALSE, "Time slot conflicts with existing event")
             ELSE IF c # "free" THEN MemoryReply(st, c, FALSE, "None")
             ELSE ConflictScan(st, user_id, event_data, start, end, i + 1)

\* InMemoryCalendarManager.create_event(user_id, event_data)
MemoryCreateEvent(st, user_id, event_data) ==
    IF ~(RequiredFields \subseteq DOMAIN event_data)
    THEN MemoryReply(st, "ok", FALSE, "Missing field")
    ELSE IF \/ FromIsoFormat(event_data.start_time).status # "ok"
            \/ FromIsoFormat(event_data.end_time).status # "ok"
    THEN MemoryReply(st, "ok", FALSE, "Invalid datetime format")
    ELSE IF ~Comparable(FromIsoFormat(event_data.start_time).value,
                        FromIsoFormat(event_data.end_time).value)
    THEN MemoryReply(st, "TypeError", FALSE, "None")
    ELSE IF Instant(FromIsoFormat(event_data.start_time).value)
               >= Instant(FromIsoFormat(event_data.end_time).value)
    THEN MemoryReply(st, "ok", FALSE, "Start time must be before end time")
    ELSE ConflictScan(st, user_id, event_data,
                      FromIsoFormat(event_data.start_time).value,
                      FromIsoFormat(event_data.end_time).value, 1)

\* ev.update(update_data): the keys given replace the dict's entries
DictUpdate(ev, update_data) ==
    [k \in DOMAIN ev \cup DOMAIN update_data |->
        IF k \in DOMAIN update_data THEN update_data[k] ELSE ev[k]]

\* InMemoryCalendarManager.update_event(event_id, user_id, update_data)
MemoryUpdateEvent(st, event_id, user_id, update_data) ==
    IF MemoryIndex(st, event_id, user_id) = 0
    THEN MemoryReply(st, "ok", FALSE, "Event not found")
    ELSE MemoryReply([st EXCEPT ![user_id][MemoryIndex(st, event_id, user_id)] =
                         DictUpdate(@, update_data)],
                     "ok", TRUE, "None")

\* InMemoryCalendarManager.delete_event(event_id, user_id, delete_future,
\* from_date): the first event with the id is deleted, whatever the flags
MemoryDeleteEvent(st, event_id, user_id, delete_future) ==
    LET i == MemoryIndex(st, event_id, user_id)
    IN  IF i = 0 THEN MemoryReply(st, "ok", FALSE, "Event not found")
        ELSE MemoryReply([st EXCEPT ![user_id] =
                             SubSeq(@, 1, i - 1) \o SubSeq(@, i + 1, Len(@))],
                         "ok", TRUE, "None")

----------------------------------------------------------------------------
(* SpecMemory: events are created, updated and deleted through the
   in-memory manager the startup handler installs when MongoDB fails *)

\* event_data of create_event: 09:00-10:00Z, 09:00-11:00Z, 10:00-11:00 UTC
\* written at +02:00, 11:00-12:00Z, naive 09:00-10:00, times not in order,
\* an unparsable start, no title
MemoryCreateData ==
    { [title |-> "t", start_time |-> Iso(At(EpochYear, 12, 15, se[1]), se[3]),
       end_time |-> Iso(At(EpochYear, 12, 15, se[2]), se[3]), event_type |-> "class"] :
        se \in { <<9, 10, "Z">>, <<9, 11, "Z">>, <<12, 13, "+02:00">>,
                 <<11, 12, "Z">>, <<9, 10, "">>, <<10, 10, "Z">> } }
    \cup { [title |-> "t", start_time |-> Iso(0, "bad"),
            end_time |-> Iso(At(EpochYear, 12, 15, 10), "Z"), event_type |-> "class"],
           [start_time |-> Iso(At(EpochYear, 12, 15, 9), "Z"),
            end_time   |-> Iso(At(EpochYear, 12, 15, 10), "Z"),
            event_type |-> "class"] }

\* update_data of update_event, as the PUT handler passes it: the fields of
\* EventUpdate that are not None
MemoryUpdateData ==
    { [title |-> "t2"],
      [end_time |-> Iso(At(EpochYear, 12, 15, 12), "Z")],
      [start_time |-> Iso(At(EpochYear, 12, 15, 10), "Z")],
      [end_time |-> Iso(At(EpochYear, 12, 15, 8), "Z")] }

InitMemory ==
    /\ ctor = [outcome |-> "none"]
    /\ walk = [pc |-> "idle"]
    /\ events = <<>>
    /\ last = [op |-> "none"]
    /\ collection = <<>>
    /\ calls = 0
    /\ reqs = <<>>
    /\ store = [u \in UserIds |-> <<>>]
    /\ taskbar = [module |-> "unloaded", tasks |-> <<>>]

MemoryCreate(user_id, event_data) ==
    LET r == MemoryCreateEvent(store, user_id, event_data)
    IN  /\ calls < MaxCalls
        /\ Len(store[user_id]) < MaxDocs
        /\ calls' = calls + 1
        /\ store' = r.store
        /\ last' = [op |-> "create_event", user_id |-> user_id,
                    event_data |-> event_data, result |-> r.result]
        /\ UNCHANGED <<ctor, walk, events, collection, reqs, taskbar>>

MemoryUpdate(event_id, user_id, update_data) ==
    LET r == MemoryUpdateEvent(store, event_id, user_id, update_data)
    IN  /\ calls < MaxCalls
        /\ calls' = calls + 1
        /\ store' = r.store
        /\ last' = [op |-> "update_event", event_id |-> event_id, user_id |-> user_id,
                    update_data |-> update_data, result |-> r.result]
        /\ UNCHANGED <<ctor, walk, events, collection, reqs, taskbar>>

MemoryDelete(event_id, user_id, delete_future) ==
    LET r == MemoryDeleteEvent(store, event_id, user_id, delete_future)
    IN  /\ calls < MaxCalls
        /\ calls' = calls + 1
        /\ store' = r.store
        /\ last' = [op |-> "delete_event", event_id |-> event_id, user_id |-> user_id,
                    delete_future |-> delete_future, result |-> r.result]
        /\ UNCHANGED <<ctor, walk, events, collection, reqs, taskbar>>

NextMemory ==
    \/ \E u \in UserIds, d \in MemoryCreateData : MemoryCreate(u, d)
    \/ \E i \in 1..Len(ObjectIds), u \in UserIds, d \in MemoryUpdateData :
          MemoryUpdate(ObjectIds[i], u, d)
    \/ \E i \in 1..Len(ObjectIds), u \in UserIds, f \in BOOLEAN :
          MemoryDelete(ObjectIds[i], u, f)

SpecMemory == InitMemory /\ [][NextMemory]_vars

\* the stored event's strings parse to a start before its end
InOrder(ev) ==
    /\ FromIsoFormat(ev.start_time).status = "ok"
    /\ FromIsoFormat(ev.end_time).status = "ok"
    /\ Comparable(FromIsoFormat(ev.start_time).value, FromIsoFormat(ev.end_time).value)
    /\ Instant(FromIsoFormat(ev.start_time).value)
          < Instant(FromIsoFormat(ev.end_time).value)

\* half-open overlap of two stored events: a.start < b.end and a.end > b.start
StoredOverlap(a, b) ==
    /\ Instant(FromIsoFormat(a.start_time).value) < Instant(FromIsoFormat(b.end_time).value)
    /\ Instant(FromIsoFormat(a.end_time).value) > Instant(FromIsoFormat(b.start_time).value)

\* C28: in campus_calendar.InMemoryCalendarManager, after any sequence of
\* create_event, update_event and delete_event calls every stored event of
\* a user has start_time < end_time and no two stored events of the same
\* user overlap (half-open test).
C28_StoreInOrderAndDisjoint ==
    \A u \in DOMAIN store :
        /\ \A i \in 1..Len(store[u]) : InOrder(store[u][i])
        /\ \A i \in 1..Len(store[u]) : \A j \in 1..Len(store[u]) :
               i # j => ~StoredOverlap(store[u][i], store[u][j])

----------------------------------------------------------------------------
(* taskbar.py: the Task dataclass and the in-memory Taskbar *)

\* the fields of the Task dataclass in the order they are declared, each
\* with whether it has a default (or default_factory)
TaskFields ==
    << [name |-> "id",          default |-> TRUE],
       [name |-> "title",       default |-> FALSE],
       [name |-> "description", default |-> TRUE],
       [name |-> "priority",    default |-> TRUE],
       [name |-> "due_date",    default |-> TRUE],
       [name |-> "completed",   default |-> TRUE],
       [name |-> "created_at",  default |-> TRUE] >>

\* @dataclass builds __init__ from the fields in order; a field without a
\* default after one with a default raises TypeError while the class
\* statement runs
DataclassAccepts(fields) ==
    \A i \in 1..Len(fields) : \A j \in 1..Len(fields) :
        (i < j /\ fields[i].default) => fields[j].default

\* what a call that returns hands back
Value(v) == [status |-> "ok", value |-> v]

\* the position of the task with this id in Taskbar.tasks, 0 when absent
TaskIndex(ts, task_id) ==
    IF \E i \in 1..Len(ts) : ts[i].id = task_id
    THEN CHOOSE i \in 1..Len(ts) : ts[i].id = task_id
    ELSE 0

\* str(uuid.uuid4()): an id no task has
TaskIds == <<"t1", "t2", "t3">>

NewTaskId(ts) ==
    TaskIds[CHOOSE i \in 1..Len(TaskIds) :
              /\ \A k \in 1..Len(ts) : ts[k].id # TaskIds[i]
              /\ \A j \in 1..(i - 1) : \E k \in 1..Len(ts) : ts[k].id = TaskIds[j]]

\* add_task(title, description, priority, due_date): the dict afterwards
\* and the id returned
AddTaskOp(ts, title, description, priority, due_date, now) ==
    [tasks  |-> Append(ts, [id          |-> NewTaskId(ts),
                            title       |-> title,
                            description |-> description,
                            priority    |-> priority,
                            due_date    |-> due_date,
                            completed   |-> FALSE,
                            created_at  |-> now]),
     result |-> Value(NewTaskId(ts))]

\* edit_task(task_id, updated_data): each key of updated_data that names one
\* of the five fields sets it
EditTaskOp(ts, task_id, updated_data) ==
    IF TaskIndex(ts, task_id) = 0 THEN [tasks |-> ts, result |-> Value(FALSE)]
    ELSE [tasks  |-> [ts EXCEPT
                        ![TaskIndex(ts, task_id)].title       = Get(updated_data, "title", @),
                        ![TaskIndex(ts, task_id)].description = Get(updated_data, "description", @),
                        ![TaskIndex(ts, task_id)].priority    = Get(updated_data, "priority", @),
                        ![TaskIndex(ts, task_id)].due_date    = Get(updated_data, "due_date", @),
                        ![TaskIndex(ts, task_id)].completed   = Get(updated_data, "completed", @)],
          result |-> Value(TRUE)]

\* remove_task(task_id)
RemoveTaskOp(ts, task_id) ==
    IF TaskIndex(ts, task_id) # 0
    THEN [tasks  |-> SubSeq(ts, 1, TaskIndex(ts, task_id) - 1)
                        \o SubSeq(ts, TaskIndex(ts, task_id) + 1, Len(ts)),
          result |-> Value(TRUE)]
    ELSE [tasks |-> ts, result |-> Value(FALSE)]

\* mark_task_completed(task_id)
MarkTaskCompletedOp(ts, task_id) ==
    IF TaskIndex(ts, task_id) = 0 THEN [tasks |-> ts, result |-> Value(FALSE)]
    ELSE [tasks  |-> [ts EXCEPT ![TaskIndex(ts, task_id)].completed = TRUE],
          result |-> Value(TRUE)]

\* a call on Taskbar made by code that imported the module: without the
\* module there is no Taskbar, and the import's exception is all it gets
Called(tb, done) ==
    IF tb.module = "loaded" THEN done
    ELSE [tasks |-> tb.tasks, result |-> [status |-> tb.module, value |-> FALSE]]

----------------------------------------------------------------------------
(* SpecTaskbar: the module is imported, then tasks are added, edited,
   removed and marked completed *)

\* updated_data of edit_task: single fields, two fields, nothing, and a key
\* that is no field of Task
EditData ==
    { [priority |-> "high"],
      [title |-> "Finish report"],
      [description |-> "notes"],
      [completed |-> TRUE],
      [completed |-> FALSE],
      [title |-> "Finish report", priority |-> "low"],
      [due_date |-> <<At(EpochYear, 12, 10, 0)>>],
      [color |-> "red"] }

InitTaskbar ==
    /\ ctor = [outcome |-> "none"]
    /\ walk = [pc |-> "idle"]
    /\ events = <<>>
    /\ last = [op |-> "none"]
    /\ collection = <<>>
    /\ calls = 0
    /\ reqs = <<>>
    /\ store = <<>>
    /\ taskbar = [module |-> "unloaded", tasks |-> <<>>]

\* from taskbar import Taskbar: the module body runs; an exception in the
\* class statement of Task leaves the module, and with it Taskbar, undefined
ImportTaskbar ==
    /\ taskbar.module = "unloaded"
    /\ taskbar' = [taskbar EXCEPT !.module = IF DataclassAccepts(TaskFields)
                                           THEN "loaded" ELSE "TypeError"]
    /\ last' = [op |-> "import"]
    /\ UNCHANGED <<ctor, walk, events, collection, calls, reqs, store>>

AddTask(title, priority) ==
    LET r == Called(taskbar, AddTaskOp(taskbar.tasks, title, <<>>, priority, <<>>,
                                      At(EpochYear, 12, 1, 12)))
    IN  /\ taskbar.module # "unloaded"
        /\ calls < MaxCalls
        /\ Len(taskbar.tasks) < Len(TaskIds)
        /\ calls' = calls + 1
        /\ taskbar' = [taskbar EXCEPT !.tasks = r.tasks]
        /\ last' = [op |-> "add_task", title |-> title, priority |-> priority,
                    result |-> r.result]
        /\ UNCHANGED <<ctor, walk, events, collection, reqs, store>>

EditTask(task_id, updated_data) ==
    LET r == Called(taskbar, EditTaskOp(taskbar.tasks, task_id, updated_data))
    IN  /\ taskbar.module # "unloaded"
        /\ calls < MaxCalls
        /\ calls' = calls + 1
        /\ taskbar' = [taskbar EXCEPT !.tasks = r.tasks]
        /\ last' = [op |-> "edit_task", task_id |-> task_id,
                    updated_data |-> updated_data, result |-> r.result]
        /\ UNCHANGED <<ctor, walk, events, collection, reqs, store>>

RemoveTask(task_id) ==
    LET r == Called(taskbar, RemoveTaskOp(taskbar.tasks, task_id))
    IN  /\ taskbar.module # "unloaded"
        /\ calls < MaxCalls
        /\ calls' = calls + 1
        /\ taskbar' = [taskbar EXCEPT !.tasks = r.tasks]
        /\ last' = [op |-> "remove_task", task_id |-> task_id, result |-> r.result]
        /\ UNCHANGED <<ctor, walk, events, collection, reqs, store>>

MarkTaskCompleted(task_id) ==
    LET r == Called(taskbar, MarkTaskCompletedOp(taskbar.tasks, task_id))
    IN  /\ taskbar.module # "unloaded"
        /\ calls < MaxCalls
        /\ calls' = calls + 1
        /\ taskbar' = [taskbar EXCEPT !.tasks = r.tasks]
        /\ last' = [op |-> "mark_task_completed", task_id |-> task_id,
                    result |-> r.result]
        /\ UNCHANGED <<ctor, walk, events, collection, reqs, store>>

NextTaskbar ==
    \/ ImportTaskbar
    \/ \E t \in {"Finish project", "Read", "Call"}, p \in {"low", "medium", "high"} :
          AddTask(t, p)
    \/ \E i \in 1..Len(TaskIds), d \in EditData : EditTask(TaskIds[i], d)
    \/ \E i \in 1..Len(TaskIds) : RemoveTask(TaskIds[i])
    \/ \E i \in 1..Len(TaskIds) : MarkTaskCompleted(TaskIds[i])

SpecTaskbar == InitTaskbar /\ [][NextTaskbar]_vars

\* the ids of the tasks in the map
TaskIdsOf(ts) == { ts[k].id : k \in 1..Len(ts) }

\* C30: in Taskbar, mark_task_completed(id) on an existing task sets
\* completed to True (idempotently) and leaves every other field of that
\* task and every other task unchanged; edit_task, remove_task and
\* mark_task_completed on an unknown id return False and leave the task map
\* unchanged; remove_task on an existing id returns True and removes exactly
\* that task.
C30_TaskbarFrame ==
    [][ ( /\ calls' = calls + 1
          /\ last'.op \in {"edit_task", "remove_task", "mark_task_completed"} )
        => LET ts == taskbar.tasks
               i  == TaskIndex(ts, last'.task_id)
           IN  /\ (last'.op = "mark_task_completed" /\ i # 0) =>
                      /\ last'.result = Value(TRUE)
                      /\ taskbar'.tasks = [ts EXCEPT ![i].completed = TRUE]
               /\ i = 0 =>
                      /\ last'.result = Value(FALSE)
                      /\ taskbar'.tasks = ts
               /\ (last'.op = "remove_task" /\ i # 0) =>
                      /\ last'.result = Value(TRUE)
                      /\ Len(taskbar'.tasks) = Len(ts) - 1
                      /\ Range(taskbar'.tasks) = Range(ts) \ {ts[i]} ]_vars

====
